---- MODULE Spec2Model ----
(***************************************************************************)
(* A model of the Tesira Text Protocol client: the response parser         *)
(* (src/src/proto/parser.rs), the command encoder (src/src/proto.rs) and   *)
(* the session (src/src/lib.rs).                                           *)
(*                                                                         *)
(* Text is a sequence of characters, each character a one-character        *)
(* string: "+OK" is <<"+", "O", "K">>.  A line read from the device keeps  *)
(* its terminating "\n" when it has one, as read_line does.                *)
(***************************************************************************)
EXTENDS Integers, Sequences, FiniteSets, TLC

(***************************************************************************)
(* Characters and text                                                     *)
(***************************************************************************)
StartsWith(s, p) ==
    Len(s) >= Len(p) /\ SubSeq(s, 1, Len(p)) = p

Drop(s, n) ==
    SubSeq(s, n + 1, Len(s))

Take(s, n) ==
    SubSeq(s, 1, n)

DigitChars ==
    <<"0", "1", "2", "3", "4", "5", "6", "7", "8", "9">>

IsAsciiDigit(c) ==
    \E i \in 1..10 : DigitChars[i] = c

DigitVal(c) ==
    (CHOOSE i \in 1..10 : DigitChars[i] = c) - 1

\* The characters of the model that take more than one byte in UTF-8.
MultiByteChars ==
    {"é"}

\* char::is_alphanumeric, on the characters the model uses.
AlphaChars ==
    {"a", "b", "c", "d", "e", "f", "g", "h", "i", "j", "k", "l", "m", "n",
     "o", "p", "q", "r", "s", "t", "u", "v", "w", "x", "y", "z",
     "A", "B", "C", "D", "E", "F", "G", "H", "I", "J", "K", "L", "M", "N",
     "O", "P", "Q", "R", "S", "T", "U", "V", "W", "X", "Y", "Z", "é"}

IsAlphanumeric(c) ==
    c \in AlphaChars \/ IsAsciiDigit(c)

\* nom's space1 takes spaces and tabs.
IsSpace(c) ==
    c = " " \/ c = "\t"

\* str::trim strips the characters with the White_Space property.
IsWhitespace(c) ==
    c \in {" ", "\t", "\n", "\r"}

\* The length of the longest prefix of s whose characters all satisfy P.
PrefixLen(s, P(_)) ==
    CHOOSE k \in 0..Len(s) :
        /\ \A i \in 1..k : P(s[i])
        /\ (k = Len(s) \/ ~P(s[k + 1]))

\* The place of the first c in s, 0 when s holds none.
IndexOf(s, c) ==
    IF \E i \in 1..Len(s) : s[i] = c
    THEN CHOOSE i \in 1..Len(s) : s[i] = c /\ \A j \in 1..(i - 1) : s[j] # c
    ELSE 0

ByteLen(c) ==
    IF c \in MultiByteChars THEN 2 ELSE 1

\* str::trim
Trim(s) ==
    LET lead == PrefixLen(s, IsWhitespace)
        body == Drop(s, lead)
        keep == CHOOSE k \in 0..Len(body) :
                    /\ \A i \in (k + 1)..Len(body) : IsWhitespace(body[i])
                    /\ (k = 0 \/ ~IsWhitespace(body[k]))
    IN  Take(body, keep)

(***************************************************************************)
(* Parser results.  A nom parser returns Ok((rest, output)) or             *)
(* Err(Error); a panic inside a map closure (an unwrap of a failed         *)
(* integer parse) aborts the whole parse and is carried as "Panic".        *)
(***************************************************************************)
POk(rest, out) ==
    [st |-> "Ok", rest |-> rest, out |-> out]

PErr(input) ==
    [st |-> "Error", rest |-> input, out |-> <<>>]

PPanic(input) ==
    [st |-> "Panic", rest |-> input, out |-> <<>>]

tag(t, input) ==
    IF StartsWith(input, t) THEN POk(Drop(input, Len(t)), t) ELSE PErr(input)

(***************************************************************************)
(* Values.  A Value is a tuple whose first element names the variant:      *)
(*   <<"Number", m, e>>   the decimal number m / 10^e (e = 0, or m does    *)
(*                        not end in 0), the exact value of the f64 sum    *)
(*   <<"Boolean", b>>  <<"String", s>>  <<"Constant", s>>                  *)
(*   <<"Array", <<v1, ..., vn>>>>   <<"Map", [key -> value]>>              *)
(***************************************************************************)
RECURSIVE DecVal(_)
DecVal(ds) ==
    IF ds = <<>> THEN 0
    ELSE DecVal(Take(ds, Len(ds) - 1)) * 10 + DigitVal(ds[Len(ds)])

RECURSIVE Pow10(_)
Pow10(n) ==
    IF n = 0 THEN 1 ELSE 10 * Pow10(n - 1)

\* i64::MAX, 9223372036854775807, as digits.
I64MaxDigits ==
    <<"9", "2", "2", "3", "3", "7", "2", "0", "3", "6", "8", "5", "4", "7",
      "7", "5", "8", "0", "7">>

\* a <= b for two digit texts of the same length.
RECURSIVE DigitsLeq(_, _)
DigitsLeq(a, b) ==
    IF a = <<>> THEN TRUE
    ELSE IF DigitVal(Head(a)) # DigitVal(Head(b))
         THEN DigitVal(Head(a)) < DigitVal(Head(b))
         ELSE DigitsLeq(Tail(a), Tail(b))

IsZeroChar(c) ==
    c = "0"

\* Whether str::parse::<i64>() of a text of digits succeeds.
FitsI64(ds) ==
    LET sig == Drop(ds, PrefixLen(ds, IsZeroChar))
    IN  \/ Len(sig) < Len(I64MaxDigits)
        \/ Len(sig) = Len(I64MaxDigits) /\ DigitsLeq(sig, I64MaxDigits)

\* str::trim_end_matches('0')
TrimEndZeros(ds) ==
    LET keep == CHOOSE k \in 0..Len(ds) :
                    /\ \A i \in (k + 1)..Len(ds) : ds[i] = "0"
                    /\ (k = 0 \/ ds[k] # "0")
    IN  Take(ds, keep)

\* The least n for which 10_i64.pow(n) overflows: 10^19 > i64::MAX.
I64PowLimit == 19

\* float_str in a build with overflow checks (10_i64.pow panics on overflow)
\* or without them (it wraps).  <<"WrappedNumber", whole, digits>> is the f64
\* whole + value / w, where value is +-digits and w is 10^Len(digits)
\* wrapped to 64 bits.
float_str_built(overflow_checks, input) ==
    LET neg     == StartsWith(input, <<"-">>)
        a       == IF neg THEN Tail(input) ELSE input
        nw      == PrefixLen(a, IsAsciiDigit)
        wd      == Take(a, nw)
        b       == Drop(a, nw)
        hasFrac == Len(b) >= 2 /\ b[1] = "." /\ IsAsciiDigit(b[2])
        nf      == IF hasFrac THEN PrefixLen(Tail(b), IsAsciiDigit) ELSE 0
        fd      == IF hasFrac THEN SubSeq(b, 2, 1 + nf) ELSE <<>>
        rest    == IF hasFrac THEN Drop(b, 1 + nf) ELSE b
        trimmed == TrimEndZeros(fd)
        whole   == IF neg THEN (-1) * DecVal(wd) ELSE DecVal(wd)
        value   == IF whole < 0 THEN (-1) * DecVal(trimmed) ELSE DecVal(trimmed)
    IN  IF nw = 0 THEN PErr(input)
        ELSE IF ~FitsI64(wd) \/ ~FitsI64(trimmed) THEN PPanic(input)
        ELSE IF Len(trimmed) >= I64PowLimit
        THEN IF overflow_checks THEN PPanic(input)
             ELSE POk(rest, <<"WrappedNumber", whole, trimmed>>)
        ELSE POk(rest, <<"Number", whole * Pow10(Len(trimmed)) + value, Len(trimmed)>>)

\* The two builds agree on every text whose fraction, without its trailing
\* zeros, is shorter than I64PowLimit digits.
float_str(input) ==
    float_str_built(TRUE, input)

delimited_str(input) ==
    LET close == IF input = <<>> THEN 0 ELSE IndexOf(Tail(input), "\"")
    IN  IF StartsWith(input, <<"\"">>) /\ close > 0
        THEN POk(Drop(input, close + 1), SubSeq(input, 2, close))
        ELSE PErr(input)

\* delimited(tag("\""), is_not("\""), tag("\":")): the key of a map entry.
map_key(input) ==
    LET n == IF input = <<>> THEN 0 ELSE IndexOf(Tail(input), "\"")
    IN  IF StartsWith(input, <<"\"">>) /\ n > 1
           /\ StartsWith(Drop(input, n), <<"\"", ":">>)
        THEN POk(Drop(input, n + 2), SubSeq(input, 2, n))
        ELSE PErr(input)

\* take_while1(|it| it.is_alphanumeric() || it == '_')
IsConstantChar(c) ==
    IsAlphanumeric(c) \/ c = "_"

constant_str(input) ==
    LET n == PrefixLen(input, IsConstantChar)
    IN  IF n = 0 THEN PErr(input) ELSE POk(Drop(input, n), <<"Constant", Take(input, n)>>)

\* HashMap::from_iter over the entries in order: a later entry of a key wins.
RECURSIVE MapFromEntries(_)
MapFromEntries(es) ==
    IF es = <<>> THEN <<>>
    ELSE LET n    == Len(es)
             init == MapFromEntries(Take(es, n - 1))
         IN  [k \in DOMAIN init \cup {es[n][1]} |->
                 IF k = es[n][1] THEN es[n][2] ELSE init[k]]

(***************************************************************************)
(* nom's combinators, applied to outcomes.  A parser that follows another  *)
(* is applied to the outcome r of the one before it.                       *)
(***************************************************************************)
\* alt: the first outcome, unless it is an Error.
alt(first, second) ==
    IF first.st = "Error" THEN second ELSE first

\* Parser::map into a variant: the output of r under the variant's name.
mapped(variant, r) ==
    IF r.st = "Ok" THEN POk(r.rest, <<variant, r.out>>) ELSE r

\* pair: the outputs of a and of b, which was applied to what a left.
paired(a, b) ==
    IF a.st # "Ok" THEN a
    ELSE IF b.st = "Ok" THEN POk(b.rest, <<a.out, b.out>>)
    ELSE b

\* space1
space1(input) ==
    IF PrefixLen(input, IsSpace) = 0 THEN PErr(input)
    ELSE POk(Drop(input, PrefixLen(input, IsSpace)), <<" ">>)

\* terminated(delimited(tag("\""), tag(name), tag("\"")), tag(":"))
field(name, input) ==
    tag(<<"\"">> \o name \o <<"\"", ":">>, input)

then_space1(r) ==
    IF r.st = "Ok" THEN space1(r.rest) ELSE r

then_field(name, r) ==
    IF r.st = "Ok" THEN field(name, r.rest) ELSE r

then_tag(t, r) ==
    IF r.st = "Ok" THEN tag(t, r.rest) ELSE r

\* The outcome r with the output of the outcome before it.
keeping(out, r) ==
    IF r.st = "Ok" THEN POk(r.rest, out) ELSE r

RECURSIVE ttp_value(_), ttp_values_more(_, _), ttp_entries_more(_, _)

then_value(r) ==
    IF r.st = "Ok" THEN ttp_value(r.rest) ELSE r

\* pair(delimited(tag("\""), is_not("\""), tag("\":")), ttp_value)
map_entry(input) ==
    paired(map_key(input), then_value(map_key(input)))

\* One turn of separated_list0(space1, entry) after a first entry: e is the
\* outcome of the separator and the entry.
entries_turn(input, acc, e) ==
    IF e.st = "Panic" THEN e
    ELSE IF e.st = "Error" THEN POk(input, acc)
    ELSE ttp_entries_more(e.rest, Append(acc, e.out))

ttp_entries_more(input, acc) ==
    entries_turn(input, acc,
                 IF space1(input).st = "Ok" THEN map_entry(space1(input).rest)
                 ELSE PErr(input))

\* One turn of separated_list0(space1, ttp_value) after a first value.
values_turn(input, acc, v) ==
    IF v.st = "Panic" THEN v
    ELSE IF v.st = "Error" THEN POk(input, acc)
    ELSE ttp_values_more(v.rest, Append(acc, v.out))

ttp_values_more(input, acc) ==
    values_turn(input, acc, then_value(space1(input)))

\* separated_list0 from its first element on: first is its outcome.
entries_from(input, first) ==
    IF first.st = "Error" THEN POk(input, <<>>)
    ELSE IF first.st = "Panic" THEN first
    ELSE ttp_entries_more(first.rest, <<first.out>>)

values_from(input, first) ==
    IF first.st = "Error" THEN POk(input, <<>>)
    ELSE IF first.st = "Panic" THEN first
    ELSE ttp_values_more(first.rest, <<first.out>>)

\* delimited(tag("{"), separated_list0(space1, entry), tag("}")) and the
\* HashMap made of the entries.
map_of(list, close) ==
    IF close.st = "Ok" THEN POk(close.rest, <<"Map", MapFromEntries(list.out)>>)
    ELSE close

map_closed(list) ==
    map_of(list, then_tag(<<"}">>, list))

ttp_map(input) ==
    IF tag(<<"{">>, input).st # "Ok" THEN PErr(input)
    ELSE map_closed(entries_from(Tail(input), map_entry(Tail(input))))

list_closed(list) ==
    keeping(list.out, then_tag(<<"]">>, list))

ttp_list_of_values(input) ==
    IF tag(<<"[">>, input).st # "Ok" THEN PErr(input)
    ELSE list_closed(values_from(Tail(input), ttp_value(Tail(input))))

\* value(Value::Boolean(b), tag(text))
boolean_value(input) ==
    alt(keeping(<<"Boolean", TRUE>>, tag(<<"t", "r", "u", "e">>, input)),
        keeping(<<"Boolean", FALSE>>, tag(<<"f", "a", "l", "s", "e">>, input)))

ttp_value(input) ==
    alt(ttp_map(input),
    alt(mapped("Array", ttp_list_of_values(input)),
    alt(mapped("String", delimited_str(input)),
    alt(boolean_value(input),
    alt(float_str(input),
        constant_str(input))))))

(***************************************************************************)
(* Responses.                                                              *)
(*   OkResponse: <<"Ok">>, <<"WithValue", v>>, <<"WithList", <<v...>>>>    *)
(*   Response:   <<"Ok", okResponse>>, <<"Err", message>>,                 *)
(*               <<"PublishToken", [label |-> text, value |-> v]>>         *)
(***************************************************************************)
then_list(r) ==
    IF r.st = "Ok" THEN ttp_list_of_values(r.rest) ELSE r

\* preceded(preceded(space1, field("value")), ttp_value)
ok_with_value(input) ==
    mapped("WithValue",
           then_value(then_field(<<"v", "a", "l", "u", "e">>, space1(input))))

\* preceded(preceded(space1, field("list")), ttp_list_of_values)
ok_with_list(input) ==
    mapped("WithList",
           then_list(then_field(<<"l", "i", "s", "t">>, space1(input))))

\* opt(alt((with value, with list))) and unwrap_or(OkResponse::Ok)
ok_payload(input) ==
    alt(ok_with_value(input), alt(ok_with_list(input), POk(input, <<"Ok">>)))

ok_response(input) ==
    IF tag(<<"+", "O", "K">>, input).st # "Ok" THEN PErr(input)
    ELSE ok_payload(tag(<<"+", "O", "K">>, input).rest)

\* err_response, had it matched "-ERR" and exactly one space.
err_response_one_space(input) ==
    LET t  == tag(<<"-", "E", "R", "R">>, input)
        n  == IF t.rest # <<>> /\ t.rest[1] = " " THEN 1 ELSE 0
        m  == Drop(t.rest, n)
        nl == IndexOf(m, "\n")
    IN  IF t.st # "Ok" THEN PErr(input)
        ELSE IF n = 0 THEN POk(t.rest, <<>>)
        ELSE IF nl > 0 THEN POk(Drop(m, nl - 1), Take(m, nl - 1))
        ELSE POk(<<>>, m)

\* err_response, had it taken the message to the end of the input.
err_response_to_end(input) ==
    LET t  == tag(<<"-", "E", "R", "R">>, input)
        n  == PrefixLen(t.rest, IsSpace)
    IN  IF t.st # "Ok" THEN PErr(input)
        ELSE IF n = 0 THEN POk(t.rest, <<>>)
        ELSE POk(<<>>, Drop(t.rest, n))

err_response(input) ==
    LET t  == tag(<<"-", "E", "R", "R">>, input)
        n  == PrefixLen(t.rest, IsSpace)
        m  == Drop(t.rest, n)
        nl == IndexOf(m, "\n")
    IN  IF t.st # "Ok" THEN PErr(input)
        ELSE IF n = 0 THEN POk(t.rest, <<>>)
        ELSE IF nl > 0 THEN POk(Drop(m, nl - 1), Take(m, nl - 1))
        ELSE POk(<<>>, m)

PublishTokenTag ==
    <<"!", " ", "\"", "p", "u", "b", "l", "i", "s", "h", "T", "o", "k", "e", "n", "\"", ":">>

\* The PublishToken of the label and the value parsed.
token_of(r) ==
    IF r.st = "Ok" THEN POk(r.rest, [label |-> r.out[1], value |-> r.out[2]])
    ELSE r

\* pair(delimited_str, preceded(space1, preceded(field("value"), ttp_value)))
label_and_value(label) ==
    paired(label, then_value(then_field(<<"v", "a", "l", "u", "e">>,
                                        then_space1(label))))

publish_token_response(input) ==
    IF tag(PublishTokenTag, input).st # "Ok" THEN PErr(input)
    ELSE token_of(label_and_value(delimited_str(tag(PublishTokenTag, input).rest)))

parse_response(input) ==
    alt(mapped("Ok", ok_response(input)),
    alt(mapped("Err", err_response(input)),
        mapped("PublishToken", publish_token_response(input))))

\* The Result of Response::parse_ttp for the outcome r of parse_response.
map_err(r) ==
    IF r.st = "Ok" THEN <<"Response", r.out>>
    ELSE IF r.st = "Panic" THEN <<"Panic">>
    ELSE <<"ParseError">>

\* Response::parse_ttp: the response, <<"ParseError">>, or <<"Panic">>.  The
\* parsers are nom's complete ones, which never return Incomplete, so the
\* arm that maps Incomplete to UnexpectedEnd is never taken.
Response_parse_ttp(source) ==
    map_err(parse_response(source))


(***************************************************************************)
(* Commands and their encoding.                                            *)
(***************************************************************************)
\* u64::to_string
RECURSIVE ToDecimal(_)
ToDecimal(n) ==
    IF n < 10 THEN <<DigitChars[n + 1]>>
    ELSE ToDecimal(n \div 10) \o <<DigitChars[(n % 10) + 1]>>

\* [T]::join(" ")
RECURSIVE JoinSpace(_)
JoinSpace(parts) ==
    IF parts = <<>> THEN <<>>
    ELSE IF Len(parts) = 1 THEN parts[1]
    ELSE parts[1] \o <<" ">> \o JoinSpace(Tail(parts))

COMMAND_GET ==
    <<"g", "e", "t">>

COMMAND_SET ==
    <<"s", "e", "t">>

bool_into_ttp(b) ==
    IF b THEN <<"t", "r", "u", "e">> ELSE <<"f", "a", "l", "s", "e">>

\* impl IntoTTP for String
String_into_ttp(str) ==
    str

\* impl IntoTTP for i32: i32::to_string
i32_into_ttp(n) ==
    IF n < 0 THEN <<"-">> \o ToDecimal(0 - n) ELSE ToDecimal(n)

\* The digits of n, padded with zeros on the left to the given width.
RECURSIVE ZeroPadded(_, _)
ZeroPadded(n, width) ==
    IF width <= 1 THEN ToDecimal(n)
    ELSE IF n < Pow10(width - 1) THEN <<"0">> \o ZeroPadded(n, width - 1)
    ELSE ToDecimal(n)

\* impl IntoTTP for f64: f64::to_string of the number with the given sign
\* bit whose magnitude is mag / 10^e: the sign, the whole part, and the
\* fraction when there is one; no exponent.
f64_into_ttp(negative, mag, e) ==
    (IF negative THEN <<"-">> ELSE <<>>)
        \o ToDecimal(mag \div Pow10(e))
        \o (IF e = 0 THEN <<>> ELSE <<".">> \o ZeroPadded(mag % Pow10(e), e))

\* chrono's %Y: the year padded with zeros to four digits, with a sign
\* when it is before year 0 or after year 9999.
YearText(year) ==
    IF year < 0 THEN <<"-">> \o ZeroPadded(0 - year, 4)
    ELSE IF year > 9999 THEN <<"+">> \o ZeroPadded(year, 4)
    ELSE ZeroPadded(year, 4)

\* chrono's %H:%M:%S
TimeText(dt) ==
    ZeroPadded(dt.hour, 2) \o <<":">> \o ZeroPadded(dt.minute, 2)
        \o <<":">> \o ZeroPadded(dt.second, 2)

\* chrono's %d:%Y
DayYearText(dt) ==
    ZeroPadded(dt.day, 2) \o <<":">> \o YearText(dt.year)

NaiveDateTime_into_ttp_padded_month(dt) ==
    <<"\"">> \o TimeText(dt) \o <<":">> \o ZeroPadded(dt.month, 2)
             \o <<":">> \o DayYearText(dt) \o <<"\"">>

\* impl IntoTTP for NaiveDateTime
NaiveDateTime_into_ttp(dt) ==
    <<"\"">> \o TimeText(dt) \o <<":">> \o ToDecimal(dt.month)
             \o <<":">> \o DayYearText(dt) \o <<"\"">>

new_get(instance_tag, attribute, indexes) ==
    [instance_tag |-> instance_tag, command |-> COMMAND_GET,
     attribute |-> attribute, indexes |-> indexes, values |-> <<>>]

new_set(instance_tag, attribute, indexes, value) ==
    [instance_tag |-> instance_tag, command |-> COMMAND_SET,
     attribute |-> attribute, indexes |-> indexes, values |-> <<value>>]

\* into_ttp, had it pushed the space before the indexes and before the values
\* whether or not there are any.
Command_into_ttp_spaced(cmd) ==
    cmd.instance_tag \o <<" ">> \o cmd.command \o <<" ">> \o cmd.attribute
        \o <<" ">> \o JoinSpace([i \in 1..Len(cmd.indexes) |-> ToDecimal(cmd.indexes[i])])
        \o <<" ">> \o JoinSpace(cmd.values)

Command_into_ttp(cmd) ==
    LET head == cmd.instance_tag \o <<" ">> \o cmd.command \o <<" ">> \o cmd.attribute
        idx  == IF cmd.indexes = <<>> THEN <<>>
                ELSE <<" ">> \o JoinSpace([i \in 1..Len(cmd.indexes) |->
                                              ToDecimal(cmd.indexes[i])])
        vals == IF cmd.values = <<>> THEN <<>>
                ELSE <<" ">> \o JoinSpace(cmd.values)
    IN  head \o idx \o vals

COMMAND_SUBSCRIBE ==
    <<"s", "u", "b", "s", "c", "r", "i", "b", "e">>

\* Duration::as_millis of a whole number of milliseconds, and
\* u128::into_ttp of it.
rate_into_ttp(millis) ==
    ToDecimal(millis)

\* impl IntoTTP for u64: u64::to_string
u64_into_ttp(n) ==
    ToDecimal(n)

\* The names of the variants of DelayValue, as written in the token.
DelayUnits ==
    { "Milliseconds", "Centimeters", "Meters", "Inches", "Feet" }

UnitText(unit) ==
    CASE unit = "Milliseconds" -> <<"M", "i", "l", "l", "i", "s", "e", "c", "o", "n", "d", "s">>
      [] unit = "Centimeters" -> <<"C", "e", "n", "t", "i", "m", "e", "t", "e", "r", "s">>
      [] unit = "Meters" -> <<"M", "e", "t", "e", "r", "s">>
      [] unit = "Inches" -> <<"I", "n", "c", "h", "e", "s">>
      [] unit = "Feet" -> <<"F", "e", "e", "t">>

\* The amount of a delay: as_millis().into_ttp() of a Duration,
\* <<"millis", n>>, or into_ttp of an f64, <<"f64", negative, mag, e>>.
amount_into_ttp(v) ==
    IF v[1] = "millis" THEN rate_into_ttp(v[2])
    ELSE f64_into_ttp(v[2], v[3], v[4])

\* impl IntoTTP for DelayValue
DelayValue_into_ttp(unit, v) ==
    <<"{", "\"", "u", "n", "i", "t", "s", "\"", ":">> \o UnitText(unit)
        \o <<" ", "\"", "d", "e", "l", "a", "y", "\"", ":">> \o amount_into_ttp(v) \o <<"}">>

FilterTypes ==
    { "Butterworth", "LinkwitzRiley", "Bessel" }

\* impl IntoTTP for FilterType
FilterType_into_ttp(t) ==
    CASE t = "Butterworth" -> <<"B", "u", "t", "t", "e", "r", "w", "o", "r", "t", "h">>
      [] t = "LinkwitzRiley" -> <<"L", "i", "n", "k", "w", "i", "t", "z", "-", "R", "i", "l", "e", "y">>
      [] t = "Bessel" -> <<"B", "e", "s", "s", "e", "l">>

\* const VALID_SLOPES
VALID_SLOPES ==
    {6, 12, 18, 24, 30, 36, 42, 48}

\* The predefined constants SIX .. FOURTYHEIGHT of FilterSlope.
FilterSlopeConstants ==
    {6, 12, 18, 24, 30, 36, 42, 48}

FilterSlope_new_any_multiple(slope) ==
    IF slope % 6 # 0 THEN <<"Err", "InvalidSlopeError">>
    ELSE <<"Ok", <<"FilterSlope", slope>>>>

\* FilterSlope::new
FilterSlope_new(slope) ==
    IF slope \notin VALID_SLOPES THEN <<"Err", "InvalidSlopeError">>
    ELSE <<"Ok", <<"FilterSlope", slope>>>>

\* impl IntoTTP for FilterSlope
FilterSlope_into_ttp(slope) ==
    u64_into_ttp(slope)

\* The value a generated set method writes for a TypeSlope attribute.
type_slope_into_ttp(filter_type, filter_slope) ==
    <<"{", "\"", "t", "y", "p", "e", "\"", ":">> \o FilterType_into_ttp(filter_type)
        \o <<" ", "\"", "s", "l", "o", "p", "e", "\"", ":">> \o FilterSlope_into_ttp(filter_slope) \o <<"}">>

\* The value a generated set method writes for a FreqencyAndGain attribute.
freqency_and_gain_into_ttp(freqency, gain) ==
    <<"{", "\"", "f", "r", "e", "q", "u", "e", "n", "c", "y", "\"", ":">> \o f64_into_ttp(freqency[2], freqency[3], freqency[4])
        \o <<" ", "\"", "g", "a", "i", "n", "\"", ":">> \o f64_into_ttp(gain[2], gain[3], gain[4]) \o <<"}">>

new_subscribe_with_rate(instance_tag, attribute, indexes, identifier, rate) ==
    [instance_tag |-> instance_tag, command |-> COMMAND_SUBSCRIBE,
     attribute |-> attribute, indexes |-> indexes,
     values |-> <<identifier, rate_into_ttp(rate)>>]

\* Command::builder().session().aliases(): the generated getter of the
\* attribute "aliases" of the block "Session Services", which has no index.
session_aliases ==
    [instance_tag |-> <<"S", "E", "S", "S", "I", "O", "N">>,
     command |-> COMMAND_GET,
     attribute |-> <<"a", "l", "i", "a", "s", "e", "s">>,
     indexes |-> <<>>, values |-> <<>>]

\* The commands the caller sends.
CommandSet ==
    { new_get(<<"L">>, <<"a">>, <<2>>) }

\* Commands of every shape: with and without indexes, with and without
\* value tokens, with one and with several of each.
Commands ==
    { session_aliases,
      new_get(<<"L">>, <<"a">>, <<2>>),
      new_get(<<"L", "3">>, <<"a">>, <<3, 10>>),
      new_set(<<"L">>, <<"a">>, <<>>, bool_into_ttp(TRUE)),
      new_set(<<"L">>, <<"a">>, <<3>>, bool_into_ttp(FALSE)),
      new_subscribe_with_rate(<<"L">>, <<"a">>, <<1, 2>>, <<"S", "0">>, 500) }

(***************************************************************************)
(* The lines the device sends.                                             *)
(***************************************************************************)
MaxTokens == 2

MaxReplies == 2

MaxCmds == 2

MaxUnread == 1

MaxBanner == 2

NL ==
    <<"\n">>

ValueField ==
    <<"\"", "v", "a", "l", "u", "e", "\"", ":">>

\* The n-th publish token of the device: its value is its serial number.
TokenLine(n) ==
    PublishTokenTag \o <<"\"", "X", "\"", " ">> \o ValueField \o ToDecimal(n) \o NL

\* The k-th reply of the device, in one of four forms: bare success, success
\* with the value k, failure "no k", and failure "bad k" with two spaces
\* before the message.
ReplyForms ==
    {"ok", "value", "err", "err2"}

\* The forms that carry the number of the reply.
NumberedForms ==
    {"value", "err"}

ReplyLine(form, k) ==
    CASE form = "ok"    -> <<"+", "O", "K">> \o NL
      [] form = "value" -> <<"+", "O", "K", " ">> \o ValueField \o ToDecimal(k) \o NL
      [] form = "err"   -> <<"-", "E", "R", "R", " ", "n", "o", " ">> \o ToDecimal(k) \o NL
      [] form = "err2"  ->
            <<"-", "E", "R", "R", " ", " ", "b", "a", "d", " ">> \o ToDecimal(k) \o NL

\* A list reply.  An entry of the list is <<"s", text>>, the string text in
\* quotes, or <<"o", text>>, the bare token text.
EntryToken(e) ==
    IF e[1] = "s" THEN <<"\"">> \o e[2] \o <<"\"">> ELSE e[2]

ListLine(entries) ==
    <<"+", "O", "K", " ", "\"", "l", "i", "s", "t", "\"", ":", "[">>
        \o JoinSpace([i \in 1..Len(entries) |-> EntryToken(entries[i])])
        \o <<"]", "\n">>

\* The lists of the device: empty, strings with one of them twice, and
\* strings among a number, a boolean and a constant.
ListReplies ==
    { <<>>,
      << <<"s", <<"A", "1">>>>, <<"s", <<"B">>>>, <<"s", <<"A", "1">>>> >>,
      << <<"o", <<"5">>>>, <<"s", <<"B">>>>, <<"o", <<"t", "r", "u", "e">>>>,
         <<"o", <<"D", "H", "C", "P">>>>, <<"s", <<>>>> >> }

WelcomeLine ==
    <<"W", "e", "l", "c", "o", "m", "e", " ", "t", "o", " ", "T", "T", "P", "\n">>

IndentedWelcomeLine ==
    <<" ", "W", "e", "l", "c", "o", "m", "e", "\n">>

BlankLines ==
    { <<"\n">>, <<" ", "\r", "\n">> }

\* The device's echo of each command.
EchoLines ==
    { Command_into_ttp(c) \o NL : c \in CommandSet }

\* The echo of a command whose instance tag begins with a two-byte character.
MultiByteLine ==
    Command_into_ttp(new_get(<<"é">>, <<"a">>, <<>>)) \o NL

\* The lines that are no response: blank lines and echoes.
NoiseLines ==
    BlankLines \cup EchoLines \cup {MultiByteLine}

BadTokenLine ==
    <<"!", "x", "\n">>

IndentedOkLine ==
    <<" ", "+", "O", "K", "\n">>

\* The lines that are classified as responses and are not of the grammar.
GarbledLines ==
    {BadTokenLine, IndentedOkLine}

\* Lines that begin with '+', '-' or '!' and are not of the response
\* grammar: text right after '+OK' and after '-ERR', text after the value
\* of a reply, and a publish token without its fields.
MalformedLines ==
    { <<"+", "O", "K", "x", "\n">>,
      <<"+", "O", "K", " ", "\"", "v", "a", "l", "u", "e", "\"", ":", "5", " ", "6", "\n">>,
      <<"-", "E", "R", "R", "x", "\n">>,
      BadTokenLine }

BannerLines ==
    {WelcomeLine, IndentedWelcomeLine}

(***************************************************************************)
(* The session.                                                            *)
(***************************************************************************)
VARIABLES
    read_stream,    \* the lines the device has sent and the session has not read
    write_stream,   \* the characters written to the device
    pending_token,  \* the VecDeque of buffered publish tokens, front first
    call,           \* the call in progress, or the last one
    pc,             \* "loop": call is reading lines; "ready": it has returned;
                    \* "aborted": it has panicked
    result,         \* what the last call that returned has returned
    greeted,        \* device: whether it has sent its welcome line
    serial,         \* device: the publish tokens sent
    answers,        \* device: the replies sent
    closed,         \* device: it has ended the stream in the middle of a line
    returned,       \* history: the tokens recv_token returned, in order
    arrived,        \* history: the tokens send_command buffered, as read
    drawn,          \* history: how many tokens recv_token took from the buffer
    mark,           \* history: Len(arrived) when send_command was last called
    taken,          \* history: drawn when send_command was last called
    last_send,      \* history: how the last send_command ended
    sent,           \* history: the commands passed to send_command, in order
    eof_turns,      \* history: the turns of the handshake loop at the end of input
    arg,            \* the argument of a library function called on its own
    ret             \* what that function returned

vars ==
    <<read_stream, write_stream, pending_token, call, pc, result,
      greeted, serial, answers, closed,
      returned, arrived, drawn, mark, taken, last_send, sent, eof_turns, arg, ret>>

device ==
    <<greeted, serial, answers, closed>>

history ==
    <<returned, arrived, drawn, mark, taken, last_send, sent, eof_turns>>

\* A library function called on its own, outside any session.
direct ==
    <<arg, ret>>

(***************************************************************************)
(* The device.  It sends a line when the session has fewer than Unread     *)
(* unread lines.  A line cut short is the end of the stream: nothing       *)
(* follows it.  The device sends its welcome line once.                    *)
(***************************************************************************)
\* The commands written so far.
NumWritten ==
    Cardinality({i \in 1..Len(write_stream) : write_stream[i] = "\n"})

IsTerminated(l) ==
    l # <<>> /\ l[Len(l)] = "\n"

\* How far the device may run ahead of the session: by MaxBanner lines while
\* the session is being opened, by MaxUnread lines afterwards.
Unread ==
    IF call = "new_from_stream" /\ pc = "loop" THEN MaxBanner ELSE MaxUnread

CanSend ==
    /\ pc # "aborted"
    /\ ~closed
    /\ Len(read_stream) < Unread

DevicePublish ==
    /\ CanSend
    /\ serial < MaxTokens
    /\ read_stream' = Append(read_stream, TokenLine(serial + 1))
    /\ serial' = serial + 1
    /\ UNCHANGED <<write_stream, pending_token, call, pc, result,
                   greeted, answers, closed, history, direct>>

DeviceReply ==
    /\ CanSend
    /\ answers < MaxReplies
    /\ \E form \in ReplyForms :
           read_stream' = Append(read_stream, ReplyLine(form, answers + 1))
    /\ answers' = answers + 1
    /\ UNCHANGED <<write_stream, pending_token, call, pc, result,
                   greeted, serial, closed, history, direct>>

\* The device answers the oldest command it has not answered yet.
DeviceAnswer ==
    /\ CanSend
    /\ answers < NumWritten
    /\ \E form \in NumberedForms :
           read_stream' = Append(read_stream, ReplyLine(form, answers + 1))
    /\ answers' = answers + 1
    /\ UNCHANGED <<write_stream, pending_token, call, pc, result,
                   greeted, serial, closed, history, direct>>

\* The device replies with a list.
DeviceList ==
    /\ CanSend
    /\ answers < MaxReplies
    /\ \E entries \in ListReplies :
           read_stream' = Append(read_stream, ListLine(entries))
    /\ answers' = answers + 1
    /\ UNCHANGED <<write_stream, pending_token, call, pc, result,
                   greeted, serial, closed, history, direct>>

DeviceNoise ==
    /\ CanSend
    /\ \E l \in NoiseLines : read_stream' = Append(read_stream, l)
    /\ UNCHANGED <<write_stream, pending_token, call, pc, result, device, history, direct>>

DeviceGarble ==
    /\ CanSend
    /\ \E l \in GarbledLines : read_stream' = Append(read_stream, l)
    /\ UNCHANGED <<write_stream, pending_token, call, pc, result, device, history, direct>>

DeviceMalformed ==
    /\ CanSend
    /\ \E l \in MalformedLines : read_stream' = Append(read_stream, l)
    /\ UNCHANGED <<write_stream, pending_token, call, pc, result, device, history, direct>>

\* The stream ends after the last line sent.
DeviceEnd ==
    /\ CanSend
    /\ closed' = TRUE
    /\ UNCHANGED <<read_stream, write_stream, pending_token, call, pc, result,
                   greeted, serial, answers, history, direct>>

DeviceBanner ==
    /\ CanSend
    /\ ~greeted
    /\ \E l \in BannerLines :
           /\ read_stream' = Append(read_stream, l)
           /\ greeted' = (l = WelcomeLine)
    /\ UNCHANGED <<write_stream, pending_token, call, pc, result,
                   serial, answers, closed, history, direct>>

\* The proper prefixes of l that end after its first character, in its middle
\* and before its newline.
Cuts(l) ==
    { Take(l, k) : k \in {1, Len(l) \div 2, Len(l) - 1} }

\* The stream ends in the middle of the device's next reply.
DeviceCutReply ==
    /\ CanSend
    /\ answers < MaxReplies
    /\ \E form \in ReplyForms : \E l \in Cuts(ReplyLine(form, answers + 1)) :
           read_stream' = Append(read_stream, l)
    /\ answers' = answers + 1
    /\ closed' = TRUE
    /\ UNCHANGED <<write_stream, pending_token, call, pc, result,
                   greeted, serial, history, direct>>

\* The stream ends in the middle of the device's next publish token.
DeviceCutToken ==
    /\ CanSend
    /\ serial < MaxTokens
    /\ \E l \in Cuts(TokenLine(serial + 1)) : read_stream' = Append(read_stream, l)
    /\ serial' = serial + 1
    /\ closed' = TRUE
    /\ UNCHANGED <<write_stream, pending_token, call, pc, result,
                   greeted, answers, history, direct>>

(***************************************************************************)
(* TesiraSession::new_from_stream: one step is one turn of its loop.       *)
(***************************************************************************)
Welcome ==
    <<"W", "e", "l", "c", "o", "m", "e">>

\* The loop, had it looked for "Welcome" after the leading blanks.
HandshakeOutcomeTrimmed(banner_buffer) ==
    IF StartsWith(Trim(banner_buffer), Welcome)
    THEN [pc |-> "ready", result |-> <<"Session">>]
    ELSE [pc |-> "loop", result |-> result]

\* What the loop does after read_line has put banner_buffer in the buffer.
HandshakeOutcome(banner_buffer) ==
    IF StartsWith(banner_buffer, Welcome)
    THEN [pc |-> "ready", result |-> <<"Session">>]
    ELSE [pc |-> "loop", result |-> result]

HandshakeRead ==
    /\ call = "new_from_stream" /\ pc = "loop"
    /\ read_stream # <<>>
    /\ read_stream' = Tail(read_stream)
    /\ pc' = HandshakeOutcome(Head(read_stream)).pc
    /\ result' = HandshakeOutcome(Head(read_stream)).result
    /\ UNCHANGED <<write_stream, pending_token, call, device, history, direct>>

MaxEofTurns ==
    3

\* What the loop does after read_line has returned Ok(0) and left
\* banner_buffer empty.
HandshakeEofOutcome ==
    HandshakeOutcome(<<>>)

\* One turn of the loop at the end of the stream.
HandshakeEof ==
    /\ call = "new_from_stream" /\ pc = "loop"
    /\ read_stream = <<>>
    /\ closed
    /\ eof_turns < MaxEofTurns
    /\ eof_turns' = eof_turns + 1
    /\ pc' = HandshakeEofOutcome.pc
    /\ result' = HandshakeEofOutcome.result
    /\ UNCHANGED <<read_stream, write_stream, pending_token, call, device,
                   returned, arrived, drawn, mark, taken, last_send, sent, direct>>

(***************************************************************************)
(* TesiraSession::recv_response, one turn of its loop on the line read:    *)
(* <<"Discard">>, <<"Panic">>, <<"ParseError">> or <<"Response", r>>.      *)
(***************************************************************************)
recv_response(line) ==
    LET trim_buf == Trim(line)
    IN  IF trim_buf = <<>> THEN <<"Discard">>
        ELSE IF ByteLen(trim_buf[1]) > 1 THEN <<"Panic">>
        ELSE IF trim_buf[1] \in {"-", "+", "!"} THEN Response_parse_ttp(line)
        ELSE <<"Discard">>

\* VecDeque::push_back, which send_command does not call.
push_back(q, t) ==
    Append(q, t)

\* VecDeque::push_front
push_front(q, t) ==
    <<t>> \o q

\* VecDeque::pop_front, which recv_token does not call.
pop_front(q) ==
    [value |-> q[1], rest |-> Tail(q)]

\* VecDeque::pop_back: the element taken and the deque left.
pop_back(q) ==
    [value |-> q[Len(q)], rest |-> Take(q, Len(q) - 1)]

(***************************************************************************)
(* TesiraSession::send_command                                             *)
(***************************************************************************)
\* format!("{}\n", command.into_ttp())
cmd_str(command) ==
    Command_into_ttp(command) \o <<"\n">>

\* Write::write_all, had it put the bytes before those already written.
write_all_before(stream, bytes) ==
    bytes \o stream

\* Write::write_all on the write stream: the bytes follow those written.
write_all(stream, bytes) ==
    stream \o bytes

\* send_command(cmd) up to its first read: the line of cmd is written.
send_command(cmd) ==
    /\ pc = "ready"
    /\ NumWritten < MaxCmds
    /\ write_stream' = write_all(write_stream, cmd_str(cmd))
    /\ call' = "send_command"
    /\ pc' = "loop"
    /\ mark' = Len(arrived)
    /\ taken' = drawn
    /\ last_send' = "None"
    /\ sent' = Append(sent, cmd)
    /\ UNCHANGED <<read_stream, pending_token, result, device, returned, arrived, drawn, direct, eof_turns>>

SendCommand ==
    \E cmd \in CommandSet : send_command(cmd)

\* send_command with a command of any shape.
SendAny ==
    \E cmd \in Commands : send_command(cmd)

\* What send_command does with the outcome r of recv_response.
SendOutcome(r) ==
    CASE r[1] = "Discard" ->
            [pc |-> "loop", result |-> result, pending |-> pending_token]
      [] r[1] = "Panic" ->
            [pc |-> "aborted", result |-> result, pending |-> pending_token]
      [] r[1] = "ParseError" ->
            [pc |-> "ready", result |-> <<"ParsingFailed">>, pending |-> pending_token]
      [] r[1] = "Response" /\ r[2][1] = "Err" ->
            [pc |-> "ready", result |-> <<"OperationFailed", r[2][2]>>,
             pending |-> pending_token]
      [] r[1] = "Response" /\ r[2][1] = "Ok" ->
            [pc |-> "ready", result |-> <<"Ok", r[2][2]>>, pending |-> pending_token]
      [] r[1] = "Response" /\ r[2][1] = "PublishToken" ->
            [pc |-> "loop", result |-> result,
             pending |-> push_front(pending_token, r[2][2])]

SendRead ==
    /\ call = "send_command" /\ pc = "loop"
    /\ read_stream # <<>>
    /\ \E r \in {recv_response(Head(read_stream))} : \E o \in {SendOutcome(r)} :
           /\ pc' = o.pc
           /\ result' = o.result
           /\ pending_token' = o.pending
           /\ arrived' = IF r[1] = "Response" /\ r[2][1] = "PublishToken"
                         THEN Append(arrived, r[2][2]) ELSE arrived
           /\ last_send' = IF o.pc = "ready" THEN o.result[1] ELSE last_send
    /\ read_stream' = Tail(read_stream)
    /\ UNCHANGED <<write_stream, call, device, returned, drawn, mark, taken, sent, direct, eof_turns>>

\* read_line returning 0, had it been taken for a line that does not parse.
EofAsParseFailure ==
    [pc |-> "ready", result |-> <<"ParsingFailed">>]

\* What recv_response makes of read_line returning 0.
EofOutcome ==
    [pc |-> "ready", result |-> <<"UnexpectedEnd">>]

SendEof ==
    /\ call = "send_command" /\ pc = "loop"
    /\ read_stream = <<>>
    /\ pc' = EofOutcome.pc
    /\ result' = EofOutcome.result
    /\ last_send' = IF EofOutcome.pc = "ready" THEN EofOutcome.result[1] ELSE last_send
    /\ UNCHANGED <<read_stream, write_stream, pending_token, call, device,
                   returned, arrived, drawn, mark, taken, sent, direct, eof_turns>>

(***************************************************************************)
(* TesiraSession::get_aliases: a send_command of the aliases getter, and   *)
(* the set of the strings of the list it returns.                          *)
(***************************************************************************)
\* The strings of the list, had the bare constants been kept as well.
aliases_with_constants(l) ==
    { l[i][2] : i \in { j \in 1..Len(l) : l[j][1] \in {"String", "Constant"} } }

\* filter_map of the Value::String entries, collected into a HashSet.
aliases_of(l) ==
    { l[i][2] : i \in { j \in 1..Len(l) : l[j][1] = "String" } }

\* What get_aliases returns when its send_command has returned res.
get_aliases(res) ==
    IF res[1] # "Ok" THEN res
    ELSE IF res[2][1] = "WithList" THEN <<"Aliases", aliases_of(res[2][2])>>
    ELSE <<"UnexpectedResponse", <<"Ok", res[2]>>>>

GetAliases ==
    /\ pc = "ready"
    /\ NumWritten < MaxCmds
    /\ write_stream' = write_all(write_stream, cmd_str(session_aliases))
    /\ call' = "get_aliases"
    /\ pc' = "loop"
    /\ mark' = Len(arrived)
    /\ taken' = drawn
    /\ last_send' = "None"
    /\ sent' = Append(sent, session_aliases)
    /\ UNCHANGED <<read_stream, pending_token, result, device, returned, arrived, drawn, direct, eof_turns>>

AliasesRead ==
    /\ call = "get_aliases" /\ pc = "loop"
    /\ read_stream # <<>>
    /\ \E r \in {recv_response(Head(read_stream))} : \E o \in {SendOutcome(r)} :
           /\ pc' = o.pc
           /\ result' = IF o.pc = "ready" THEN get_aliases(o.result) ELSE o.result
           /\ pending_token' = o.pending
           /\ arrived' = IF r[1] = "Response" /\ r[2][1] = "PublishToken"
                         THEN Append(arrived, r[2][2]) ELSE arrived
           /\ last_send' = IF o.pc = "ready" THEN o.result[1] ELSE last_send
    /\ read_stream' = Tail(read_stream)
    /\ UNCHANGED <<write_stream, call, device, returned, drawn, mark, taken, sent, direct, eof_turns>>

AliasesEof ==
    /\ call = "get_aliases" /\ pc = "loop"
    /\ read_stream = <<>>
    /\ pc' = EofOutcome.pc
    /\ result' = get_aliases(EofOutcome.result)
    /\ last_send' = IF EofOutcome.pc = "ready" THEN EofOutcome.result[1] ELSE last_send
    /\ UNCHANGED <<read_stream, write_stream, pending_token, call, device,
                   returned, arrived, drawn, mark, taken, sent, direct, eof_turns>>

(***************************************************************************)
(* TesiraSession::recv_token                                               *)
(***************************************************************************)
RecvToken ==
    /\ pc = "ready"
    /\ call' = "recv_token"
    /\ IF pending_token # <<>>
       THEN /\ pending_token' = pop_back(pending_token).rest
            /\ result' = <<"Token", pop_back(pending_token).value>>
            /\ pc' = "ready"
            /\ returned' = Append(returned, pop_back(pending_token).value)
            /\ drawn' = drawn + 1
       ELSE /\ pc' = "loop"
            /\ UNCHANGED <<pending_token, result, returned, drawn>>
    /\ UNCHANGED <<read_stream, write_stream, device, arrived, mark, taken, last_send, sent, direct, eof_turns>>

\* What recv_token does with the outcome r of recv_response.
RecvOutcome(r) ==
    CASE r[1] = "Discard" -> [pc |-> "loop", result |-> result]
      [] r[1] = "Panic" -> [pc |-> "aborted", result |-> result]
      [] r[1] = "ParseError" -> [pc |-> "ready", result |-> <<"ParsingFailed">>]
      [] r[1] = "Response" /\ r[2][1] = "PublishToken" ->
            [pc |-> "ready", result |-> <<"Token", r[2][2]>>]
      [] r[1] = "Response" /\ r[2][1] # "PublishToken" ->
            [pc |-> "ready", result |-> <<"UnexpectedResponse", r[2]>>]

RecvRead ==
    /\ call = "recv_token" /\ pc = "loop"
    /\ read_stream # <<>>
    /\ \E o \in {RecvOutcome(recv_response(Head(read_stream)))} :
           /\ pc' = o.pc
           /\ result' = o.result
           /\ returned' = IF o.result[1] = "Token" /\ o.pc = "ready"
                          THEN Append(returned, o.result[2])
                          ELSE returned
    /\ read_stream' = Tail(read_stream)
    /\ UNCHANGED <<write_stream, pending_token, call, device, arrived, drawn,
                   mark, taken, last_send, sent, direct, eof_turns>>

RecvEof ==
    /\ call = "recv_token" /\ pc = "loop"
    /\ read_stream = <<>>
    /\ pc' = EofOutcome.pc
    /\ result' = EofOutcome.result
    /\ UNCHANGED <<read_stream, write_stream, pending_token, call, device, history, direct>>

(***************************************************************************)
(* Response::parse_ttp, called on its own on a text.                       *)
(***************************************************************************)
MaxNumberLen == 5

\* The characters of the number texts.
NumberAlphabet ==
    {"-", ".", "0", "2", "5"}

\* number := "-"? DIGIT+ ( "." DIGIT+ )?, with its parts: the text after
\* the sign, the digits before the point and the digits after it.
Unsigned(t) ==
    IF StartsWith(t, <<"-">>) THEN Tail(t) ELSE t

WholeDigits(t) ==
    IF IndexOf(Unsigned(t), ".") = 0 THEN Unsigned(t)
    ELSE Take(Unsigned(t), IndexOf(Unsigned(t), ".") - 1)

FractionDigits(t) ==
    IF IndexOf(Unsigned(t), ".") = 0 THEN <<>>
    ELSE Drop(Unsigned(t), IndexOf(Unsigned(t), "."))

AllDigits(t) ==
    \A i \in 1..Len(t) : IsAsciiDigit(t[i])

IsNumberText(t) ==
    /\ WholeDigits(t) # <<>>
    /\ AllDigits(WholeDigits(t))
    /\ AllDigits(FractionDigits(t))
    /\ IndexOf(Unsigned(t), ".") > 0 => FractionDigits(t) # <<>>

\* The texts of the number grammar of at most MaxNumberLen characters.
NumberTexts ==
    { t \in UNION { [1..k -> NumberAlphabet] : k \in 1..MaxNumberLen } :
        IsNumberText(t) }

OkValuePrefix ==
    <<"+", "O", "K", " ">> \o ValueField

\* The reply '+OK "value":<text>'.
OkValue(text) ==
    OkValuePrefix \o text

MaxTokenLen == 5

\* The characters of the bare tokens: the letters of 'true', a digit and
\* the underscore.
TokenAlphabet ==
    {"t", "r", "u", "e", "5", "_"}

\* The bare tokens of at most MaxTokenLen characters.
BareTokens ==
    UNION { [1..k -> TokenAlphabet] : k \in 1..MaxTokenLen }

\* Other value tokens: 'false' and constants that begin with it, constants
\* of the device, and strings in quotes, among them the empty string and
\* strings that hold the text of a boolean, a number and a constant.
OtherTokens ==
    { <<"f", "a", "l", "s", "e">>,
      <<"f", "a", "l", "s", "e", "5">>,
      <<"f", "a", "l", "s", "e", "_", "A">>,
      <<"f", "a", "l">>,
      <<"D", "H", "C", "P">>,
      <<"L", "I", "N", "K", "_", "1", "_", "G", "B">>,
      <<"\"", "\"">>,
      <<"\"", "a", " ", "b", "\"">>,
      <<"\"", "t", "r", "u", "e", "\"">>,
      <<"\"", "-", "5", ".", "0", "\"">>,
      <<"\"", "D", "H", "C", "P", "\"">> }

ValueTokens ==
    BareTokens \cup OtherTokens \cup NumberTexts

ErrTag ==
    <<"-", "E", "R", "R">>

\* What follows '-ERR' before the message: one space, two spaces, a tab.
ErrSeparators ==
    { <<" ">>, <<" ", " ">>, <<"\t">> }

ErrMessages ==
    { <<>>, <<"x">>, <<"n", "o", " ", "1">>,
      <<"n", "o", ":", " ", "{", "\"", "i", "d", "\"", ":", "0", "}", " ">> }

\* What follows the message: nothing, a newline, a newline and more text.
ErrEndings ==
    { <<>>, <<"\n">>, <<"\n", "A", "A">>, <<"\r", "\n">> }

\* The '-ERR' texts: with a message, and without one.
ErrTexts ==
    { ErrTag \o sep \o m \o e :
        sep \in ErrSeparators, m \in ErrMessages, e \in ErrEndings }
    \cup { ErrTag \o e : e \in ErrEndings }

\* Values on the wire, each with the Value it denotes: strings, arrays and
\* maps, empty, filled and nested in one another.
StructuredValues ==
    << [text  |-> <<"\"", "\"">>,
        value |-> <<"String", <<>>>>],
       [text  |-> <<"[", "]">>,
        value |-> <<"Array", <<>>>>],
       [text  |-> <<"{", "}">>,
        value |-> <<"Map", <<>>>>],
       [text  |-> <<"[", "2", " ", "\"", "a", " ", "b", "\"", " ",
                    "t", "r", "u", "e", " ", "D", "H", "C", "P", "]">>,
        value |-> <<"Array", << <<"Number", 2, 0>>, <<"String", <<"a", " ", "b">>>>,
                                <<"Boolean", TRUE>>,
                                <<"Constant", <<"D", "H", "C", "P">>>> >>>>],
       [text  |-> <<"[", "5", ".", "2", "0", " ", " ", "-", "2", "0", "]">>,
        value |-> <<"Array", << <<"Number", 52, 1>>, <<"Number", -20, 0>> >>>>],
       [text  |-> <<"{", "\"", "k", "\"", ":", "2", " ",
                    "\"", "m", "\"", ":", "\"", "\"", "}">>,
        value |-> <<"Map", (<<"k">> :> <<"Number", 2, 0>>)
                           @@ (<<"m">> :> <<"String", <<>>>>)>>],
       [text  |-> <<"{", "\"", "k", "\"", ":", "[", "{", "\"", "m", "\"", ":",
                    "D", "H", "C", "P", "}", "]", "}">>,
        value |-> <<"Map",
                    (<<"k">> :> <<"Array",
                        << <<"Map", (<<"m">> :> <<"Constant", <<"D", "H", "C", "P">>>>)>> >>>>)>>],
       [text  |-> <<"[", "[", "2", "]", " ", "{", "\"", "k", "\"", ":", "[", "]", "}", "]">>,
        value |-> <<"Array", << <<"Array", << <<"Number", 2, 0>> >>>>,
                                <<"Map", (<<"k">> :> <<"Array", <<>>>>)>> >>>>],
       [text  |-> <<"[", "-", "2", ".", "5", " ", "-", "0", ".", "5", "]">>,
        value |-> <<"Array", << <<"Number", -25, 1>>, <<"Number", -5, 1>> >>>>],
       [text  |-> <<"{", "\"", "\"", ":", "2", "}">>,
        value |-> <<"Map", (<<>> :> <<"Number", 2, 0>>)>>] >>

ListField ==
    <<"\"", "l", "i", "s", "t", "\"", ":">>

\* The reply '+OK "list":<text>'.
OkList(text) ==
    <<"+", "O", "K", " ">> \o ListField \o text

\* Lists on the wire, each with the values it denotes.
Lists ==
    << [text   |-> <<"[", "]">>,
        values |-> <<>>],
       [text   |-> <<"[", "\"", "B", "\"", " ", "\"", "A", "1", "\"", " ",
                     "\"", "B", "\"", "]">>,
        values |-> << <<"String", <<"B">>>>, <<"String", <<"A", "1">>>>,
                      <<"String", <<"B">>>> >>],
       [text   |-> <<"[", "D", "H", "C", "P", " ", "2", " ", "[", "]", "]">>,
        values |-> << <<"Constant", <<"D", "H", "C", "P">>>>, <<"Number", 2, 0>>,
                      <<"Array", <<>>>> >>] >>

BareOk ==
    <<"+", "O", "K">>

\* The '+OK' texts with a structured value or a list, and the bare one.
OkTexts ==
    { OkValue(StructuredValues[i].text) : i \in DOMAIN StructuredValues }
    \cup { OkList(Lists[i].text) : i \in DOMAIN Lists }
    \cup { BareOk }

\* The labels of publish tokens: short, with a space, and empty.
PublishLabels ==
    { <<"X">>, <<"M", "y", " ", "4">>, <<>> }

\* The values of publish tokens on the wire, each with the Value it
\* denotes: scalars and arrays of numbers.
PublishValues ==
    << [text  |-> <<"6", ".", "0", "0">>,
        value |-> <<"Number", 6, 0>>],
       [text  |-> <<"f", "a", "l", "s", "e">>,
        value |-> <<"Boolean", FALSE>>],
       [text  |-> <<"\"", "o", "n", "\"">>,
        value |-> <<"String", <<"o", "n">>>>],
       [text  |-> <<"D", "H", "C", "P">>,
        value |-> <<"Constant", <<"D", "H", "C", "P">>>>],
       [text  |-> <<"[", "5", ".", "2", "0", " ", "3", ".", "0", " ",
                    "-", "1", "0", ".", "0", " ", "-", "6", "0", "]">>,
        value |-> <<"Array", << <<"Number", 52, 1>>, <<"Number", 3, 0>>,
                                <<"Number", -10, 0>>, <<"Number", -60, 0>> >>>>],
       [text  |-> <<"-", "0", ".", "5", "0">>,
        value |-> <<"Number", -5, 1>>],
       [text  |-> <<"[", "-", "0", ".", "2", "5", " ", "0", ".", "2", "5", "]">>,
        value |-> <<"Array", << <<"Number", -25, 2>>, <<"Number", 25, 2>> >>>>] >>

\* The line '! "publishToken":"<label>" "value":<text>'.
PublishText(label, text) ==
    PublishTokenTag \o <<"\"">> \o label \o <<"\"", " ">> \o ValueField \o text

PublishTexts ==
    { PublishText(l, PublishValues[i].text) :
        l \in PublishLabels, i \in DOMAIN PublishValues }

\* The texts parse_ttp is called on.
ParseTexts ==
    { OkValue(t) : t \in ValueTokens } \cup ErrTexts \cup OkTexts \cup PublishTexts

ParseTtp ==
    /\ ret = <<"None">>
    /\ ret' = Response_parse_ttp(arg)
    /\ UNCHANGED <<read_stream, write_stream, pending_token, call, pc, result,
                   device, history, arg>>

(***************************************************************************)
(* Encoding a value and decoding the token.                                *)
(*   encodable values: <<"f64", negative, mag, e>> (mag / 10^e),           *)
(*   <<"i32", n>>, <<"bool", b>>, <<"String", s>>                          *)
(***************************************************************************)
MaxMantissa ==
    30

MaxFraction ==
    2

MaxInt ==
    15

MaxStringLen ==
    3

StringAlphabet ==
    {"a", " ", "5"}

\* The f64 values m / 10^e, each of them once, with either sign bit.
Floats ==
    { v \in { <<"f64", negative, mag, e>> :
                negative \in BOOLEAN, mag \in 0..MaxMantissa, e \in 0..MaxFraction } :
        v[4] = 0 \/ v[3] % 10 # 0 }

Ints ==
    { <<"i32", n>> : n \in (0 - MaxInt)..MaxInt }

Bools ==
    { <<"bool", b>> : b \in BOOLEAN }

Strings ==
    { <<"String", str>> :
        str \in UNION { [1..n -> StringAlphabet] : n \in 0..MaxStringLen } }

Encodables ==
    Floats \cup Ints \cup Bools \cup Strings

\* The last year of the date-times encoded.
MaxYear ==
    10000

\* Date-times: <<"NaiveDateTime", [hour, minute, second, month, day, year]>>,
\* among them 2025-06-01T12:56:43.
DateTimes ==
    { <<"NaiveDateTime", dt>> :
        dt \in [hour : {0, 9, 12, 23}, minute : {0, 7, 56}, second : {0, 43, 59},
                month : {1, 6, 10, 12}, day : {1, 9, 28},
                year : {-1, 0, 33, 999, 2025, 9999, MaxYear}] }

\* The amounts of delays and the frequencies and gains of filters.
Millis ==
    { <<"millis", n>> : n \in {0, 42, 1500} }

Lengths ==
    { <<"f64", FALSE, 0, 0>>, <<"f64", FALSE, 42, 0>>, <<"f64", FALSE, 15, 1>>,
      <<"f64", FALSE, 25, 2>> }

Frequencies ==
    { <<"f64", FALSE, 20, 0>>, <<"f64", FALSE, 1000, 0>>, <<"f64", FALSE, 525, 1>> }

Gains ==
    { <<"f64", TRUE, 12, 0>>, <<"f64", FALSE, 0, 0>>, <<"f64", FALSE, 35, 1>>,
      <<"f64", TRUE, 5, 1>> }

\* The structured values: <<"Delay", unit, amount>>,
\* <<"TypeSlope", filter_type, filter_slope>>, <<"FreqGain", freqency, gain>>.
Delays ==
    { <<"Delay", "Milliseconds", v>> : v \in Millis }
        \cup { <<"Delay", unit, v>> :
                 unit \in DelayUnits \ {"Milliseconds"}, v \in Lengths }

TypeSlopes ==
    { <<"TypeSlope", t, slope>> : t \in FilterTypes, slope \in VALID_SLOPES }

FreqGains ==
    { <<"FreqGain", f, g>> : f \in Frequencies, g \in Gains }

Structures ==
    Delays \cup TypeSlopes \cup FreqGains

\* IntoTTP::into_ttp of an encodable value.
into_ttp(v) ==
    CASE v[1] = "NaiveDateTime" -> NaiveDateTime_into_ttp(v[2])
      [] v[1] = "Delay" -> DelayValue_into_ttp(v[2], v[3])
      [] v[1] = "TypeSlope" -> type_slope_into_ttp(v[2], v[3])
      [] v[1] = "FreqGain" -> freqency_and_gain_into_ttp(v[2], v[3])
      [] v[1] = "f64" -> f64_into_ttp(v[2], v[3], v[4])
      [] v[1] = "i32" -> i32_into_ttp(v[2])
      [] v[1] = "bool" -> bool_into_ttp(v[2])
      [] v[1] = "String" -> String_into_ttp(v[2])

\* The value is encoded to its token.
Encode ==
    /\ ret = <<"None">>
    /\ ret' = <<"Token", into_ttp(arg)>>
    /\ UNCHANGED <<read_stream, write_stream, pending_token, call, pc, result,
                   device, history, arg>>

\* The token is decoded as a value.
Decode ==
    /\ ret[1] = "Token"
    /\ ret' = <<"Decoded", ttp_value(ret[2])>>
    /\ UNCHANGED <<read_stream, write_stream, pending_token, call, pc, result,
                   device, history, arg>>

(***************************************************************************)
(* Building a command from a value and encoding it:                        *)
(*   <<"set", indexes, value>>  Command::new_set(.., indexes, value)       *)
(*   <<"subscribe", micros>>    Command::new_subscribe_with_rate with a    *)
(*                              Duration of that many microseconds         *)
(***************************************************************************)
\* Duration::as_millis of a Duration given in microseconds.
as_millis(micros) ==
    micros \div 1000

Rates ==
    {0, 999, 1000, 1500, 500000, 1999999}

Builds ==
    { <<"set", indexes, v>> : indexes \in {<<>>, <<3>>}, v \in Strings \cup Bools }
        \cup { <<"subscribe", micros>> : micros \in Rates }

\* The command is built: the constructor encodes the value it is given.
build(b) ==
    IF b[1] = "set"
    THEN new_set(<<"L">>, <<"a">>, b[2], into_ttp(b[3]))
    ELSE new_subscribe_with_rate(<<"L">>, <<"a">>, <<>>, <<"S", "0">>, as_millis(b[2]))

\* The command is built and encoded.
EncodeCommand ==
    /\ ret = <<"None">>
    /\ ret' = <<"Line", Command_into_ttp(build(arg))>>
    /\ UNCHANGED <<read_stream, write_stream, pending_token, call, pc, result,
                   device, history, arg>>

(***************************************************************************)
(* The generator of the typed surface, for an attribute with a set verb    *)
(* and discrete values.  A generated type is <<"bool">> or                 *)
(* <<"enum", variants>>, each variant [name |-> .., text |-> ..] with the  *)
(* text its into_ttp returns.                                              *)
(***************************************************************************)
LowerLetters ==
    <<"a", "b", "c", "d", "e", "f", "g", "h", "i", "j", "k", "l", "m", "n", "o", "p", "q", "r", "s", "t", "u", "v", "w", "x", "y", "z">>

UpperLetters ==
    <<"A", "B", "C", "D", "E", "F", "G", "H", "I", "J", "K", "L", "M", "N", "O", "P", "Q", "R", "S", "T", "U", "V", "W", "X", "Y", "Z">>

\* char::to_lowercase
to_lowercase(c) ==
    IF \E i \in 1..26 : UpperLetters[i] = c
    THEN LowerLetters[CHOOSE i \in 1..26 : UpperLetters[i] = c]
    ELSE c

\* char::to_uppercase
to_uppercase(c) ==
    IF \E i \in 1..26 : LowerLetters[i] = c
    THEN UpperLetters[CHOOSE i \in 1..26 : LowerLetters[i] = c]
    ELSE c

\* The characters in the order of their code points.
CodePoints ==
    <<" ">> \o DigitChars \o UpperLetters \o LowerLetters

CodePoint(c) ==
    CHOOSE i \in DOMAIN CodePoints : CodePoints[i] = c

\* a < b for two strings, as Ord for String compares them.
RECURSIVE StringLess(_, _)
StringLess(a, b) ==
    IF b = <<>> THEN FALSE
    ELSE IF a = <<>> THEN TRUE
    ELSE IF Head(a) # Head(b) THEN CodePoint(Head(a)) < CodePoint(Head(b))
    ELSE StringLess(Tail(a), Tail(b))

\* Vec::sort of a vector of strings.
RECURSIVE sort(_)
sort(values) ==
    IF values = <<>> THEN <<>>
    ELSE LET rest == sort(Tail(values))
             k    == Cardinality({ i \in DOMAIN rest : StringLess(rest[i], Head(values)) })
         IN  SubSeq(rest, 1, k) \o <<Head(values)>> \o SubSeq(rest, k + 1, Len(rest))

\* The fold of to_struct_name over the characters kept.
RECURSIVE struct_name_fold(_, _, _)
struct_name_fold(chars, acc, parent) ==
    IF chars = <<>> THEN acc
    ELSE IF acc = <<>>
         THEN struct_name_fold(Tail(chars),
                  (IF IsAsciiDigit(Head(chars)) THEN parent ELSE <<>>)
                      \o <<to_uppercase(Head(chars))>>, parent)
    ELSE IF IsWhitespace(acc[Len(acc)])
         THEN struct_name_fold(Tail(chars),
                  Take(acc, Len(acc) - 1) \o <<to_uppercase(Head(chars))>>, parent)
    ELSE struct_name_fold(Tail(chars), Append(acc, Head(chars)), parent)

\* The characters of the trimmed value that are alphanumeric or whitespace,
\* in lower case.
RECURSIVE kept_chars(_)
kept_chars(value) ==
    IF value = <<>> THEN <<>>
    ELSE (IF IsAlphanumeric(Head(value)) \/ IsWhitespace(Head(value))
          THEN <<to_lowercase(Head(value))>> ELSE <<>>)
             \o kept_chars(Tail(value))

to_struct_name(value, parent) ==
    struct_name_fold(kept_chars(Trim(value)), <<>>, parent)

\* The name of the enumeration generated for the attribute of the model.
EnumName ==
    <<"T", "e", "s", "i", "r", "a", "M", "o", "d", "e">>

\* The variants generated: one for each entry of values.
variants_of(values) ==
    [i \in DOMAIN values |->
        [name |-> to_struct_name(values[i], EnumName), text |-> values[i]]]

\* The type of the value argument of the set method: the entry of
\* discrete_types for the sorted values, which holds 'bool' for false and
\* true, or the enumeration generated.
discrete_type(values) ==
    IF sort(values) = <<<<"f", "a", "l", "s", "e">>, <<"t", "r", "u", "e">>>> THEN <<"bool">>
    ELSE <<"enum", variants_of(values)>>

MaxValues ==
    3

CatalogValues ==
    { <<"A">>, <<"B">>, <<"C">>, <<"t", "r", "u", "e">>, <<"f", "a", "l", "s", "e">> }

\* The values lists of the catalog: <<"Discrete", values>>.
Discretes ==
    { <<"Discrete", values>> :
        values \in UNION { [1..n -> CatalogValues] : n \in 1..MaxValues } }

\* The generator reaches the attribute.
Generate ==
    /\ ret = <<"None">>
    /\ ret' = discrete_type(arg[2])
    /\ UNCHANGED <<read_stream, write_stream, pending_token, call, pc, result,
                   device, history, arg>>

\* A variant of the generated enumeration is encoded.
EncodeVariant ==
    /\ ret[1] = "enum"
    /\ \E i \in DOMAIN ret[2] : ret' = <<"VariantToken", i, ret[2][i].text>>
    /\ UNCHANGED <<read_stream, write_stream, pending_token, call, pc, result,
                   device, history, arg>>

\* A boolean is encoded for an attribute whose type is bool.
EncodeBool ==
    /\ ret = <<"bool">>
    /\ \E b \in BOOLEAN : ret' = <<"BoolToken", b, bool_into_ttp(b)>>
    /\ UNCHANGED <<read_stream, write_stream, pending_token, call, pc, result,
                   device, history, arg>>

(***************************************************************************)
(* Filter slopes: <<"new", slope>> is built by FilterSlope::new,           *)
(* <<"const", slope>> is one of the predefined constants.                  *)
(***************************************************************************)
MaxSlope ==
    50

SlopeSources ==
    { <<"new", slope>> : slope \in 0..MaxSlope }
        \cup { <<"const", slope>> : slope \in FilterSlopeConstants }

\* FilterSlope::new(slope) is called.
NewSlope ==
    /\ arg[1] = "new"
    /\ ret = <<"None">>
    /\ ret' = FilterSlope_new(arg[2])
    /\ UNCHANGED <<read_stream, write_stream, pending_token, call, pc, result,
                   device, history, arg>>

\* A predefined constant is taken.
ConstSlope ==
    /\ arg[1] = "const"
    /\ ret = <<"None">>
    /\ ret' = <<"Ok", <<"FilterSlope", arg[2]>>>>
    /\ UNCHANGED <<read_stream, write_stream, pending_token, call, pc, result,
                   device, history, arg>>

\* The FilterSlope obtained is encoded.
EncodeSlope ==
    /\ ret[1] = "Ok"
    /\ ret' = <<"Token", FilterSlope_into_ttp(ret[2][2])>>
    /\ UNCHANGED <<read_stream, write_stream, pending_token, call, pc, result,
                   device, history, arg>>

(***************************************************************************)
(* Specifications                                                          *)
(***************************************************************************)
\* new_from_stream has been called and has read nothing yet.
InitOpen ==
    /\ read_stream = <<>>
    /\ write_stream = <<>>
    /\ pending_token = <<>>
    /\ call = "new_from_stream"
    /\ pc = "loop"
    /\ result = <<"None">>
    /\ greeted = FALSE
    /\ serial = 0
    /\ answers = 0
    /\ closed = FALSE
    /\ returned = <<>>
    /\ arrived = <<>>
    /\ drawn = 0
    /\ mark = 0
    /\ taken = 0
    /\ last_send = "None"
    /\ sent = <<>>
    /\ eof_turns = 0
    /\ arg = <<>>
    /\ ret = <<"None">>

\* Opening a session, with the device sending any of its lines.
NextOpen ==
    \/ DevicePublish
    \/ DeviceReply
    \/ DeviceNoise
    \/ DeviceBanner
    \/ HandshakeRead

SpecOpen ==
    InitOpen /\ [][NextOpen]_vars

\* Opening a session on a stream that ends.
NextEnding ==
    \/ DevicePublish
    \/ DeviceReply
    \/ DeviceNoise
    \/ DeviceBanner
    \/ DeviceEnd
    \/ HandshakeRead
    \/ HandshakeEof

SpecEnding ==
    InitOpen /\ [][NextEnding]_vars

\* A session from its opening on: the handshake, then the calls, with
\* commands of every shape.
NextWrites ==
    \/ DeviceBanner
    \/ DeviceReply
    \/ HandshakeRead
    \/ SendAny
    \/ SendRead
    \/ SendEof
    \/ RecvToken
    \/ RecvRead
    \/ RecvEof

SpecWrites ==
    InitOpen /\ [][NextWrites]_vars

\* No session is open: a function of the library is called on its own.
NoSession ==
    /\ read_stream = <<>>
    /\ write_stream = <<>>
    /\ pending_token = <<>>
    /\ call = "None"
    /\ pc = "ready"
    /\ result = <<"None">>
    /\ greeted = FALSE
    /\ serial = 0
    /\ answers = 0
    /\ closed = FALSE
    /\ returned = <<>>
    /\ arrived = <<>>
    /\ drawn = 0
    /\ mark = 0
    /\ taken = 0
    /\ last_send = "None"
    /\ sent = <<>>
    /\ eof_turns = 0
    /\ ret = <<"None">>

InitParse ==
    /\ NoSession
    /\ arg \in ParseTexts

NextParse ==
    ParseTtp

SpecParse ==
    InitParse /\ [][NextParse]_vars

\* A value is encoded and the token decoded again, with no session.
InitRoundTrip ==
    /\ NoSession
    /\ arg \in Encodables

NextRoundTrip ==
    \/ Encode
    \/ Decode

SpecRoundTrip ==
    InitRoundTrip /\ [][NextRoundTrip]_vars

\* Number texts of every length: whole parts below, at and above the range
\* of i64, fractions of fewer and of I64PowLimit or more digits.
Zeros(n) ==
    [i \in 1..n |-> "0"]

WholeParts ==
    { <<"0">>, <<"7">>, <<"4", "2">>,
      Zeros(I64PowLimit) \o <<"7">>,
      Take(I64MaxDigits, I64PowLimit - 1) \o <<"8">>,
      I64MaxDigits \o <<"9">> }

FractionParts ==
    { <<>>, <<"5">>, <<"2", "5">>, <<"5", "0">>,
      Zeros(I64PowLimit),
      <<"5">> \o Zeros(I64PowLimit - 1),
      Zeros(I64PowLimit - 1) \o <<"1">>,
      Zeros(I64PowLimit - 2) \o <<"2", "5">>,
      Zeros(I64PowLimit) \o <<"1">>,
      I64MaxDigits,
      Take(I64MaxDigits, I64PowLimit - 1) \o <<"8">> }

NumberText(sign, whole, fraction) ==
    sign \o whole \o (IF fraction = <<>> THEN <<>> ELSE <<".">> \o fraction)

LongNumberTexts ==
    { NumberText(sign, w, f) :
        sign \in {<<>>, <<"-">>}, w \in WholeParts, f \in FractionParts }

\* float_str decodes the text, in a build with or without overflow checks.
DecodeNumber ==
    /\ ret = <<"None">>
    /\ \E overflow_checks \in BOOLEAN :
           ret' = <<"FloatStr", overflow_checks,
                    float_str_built(overflow_checks, arg)>>
    /\ UNCHANGED <<read_stream, write_stream, pending_token, call, pc, result,
                   device, history, arg>>

InitNumbers ==
    /\ NoSession
    /\ arg \in LongNumberTexts

NextNumbers ==
    DecodeNumber

SpecNumbers ==
    InitNumbers /\ [][NextNumbers]_vars

\* A date-time is encoded, with no session.
InitDates ==
    /\ NoSession
    /\ arg \in DateTimes

NextDates ==
    Encode

SpecDates ==
    InitDates /\ [][NextDates]_vars

\* A structured value is encoded and the token decoded, with no session.
InitStructures ==
    /\ NoSession
    /\ arg \in Structures

SpecStructures ==
    InitStructures /\ [][NextRoundTrip]_vars

\* A filter slope is built or taken, then encoded, with no session.
InitSlopes ==
    /\ NoSession
    /\ arg \in SlopeSources

NextSlopes ==
    \/ NewSlope
    \/ ConstSlope
    \/ EncodeSlope

SpecSlopes ==
    InitSlopes /\ [][NextSlopes]_vars

\* A command is built from a value and encoded, with no session.
InitBuilds ==
    /\ NoSession
    /\ arg \in Builds

NextBuilds ==
    EncodeCommand

SpecBuilds ==
    InitBuilds /\ [][NextBuilds]_vars

\* The generator handles a discrete attribute, and a value of the
\* generated type is encoded.
InitDiscretes ==
    /\ NoSession
    /\ arg \in Discretes

NextDiscretes ==
    \/ Generate
    \/ EncodeVariant
    \/ EncodeBool

SpecDiscretes ==
    InitDiscretes /\ [][NextDiscretes]_vars

\* new_from_stream has returned the session: it has read the welcome line.
Init ==
    /\ read_stream = <<>>
    /\ write_stream = <<>>
    /\ pending_token = <<>>
    /\ call = "new_from_stream"
    /\ pc = "ready"
    /\ result = <<"Session">>
    /\ greeted = TRUE
    /\ serial = 0
    /\ answers = 0
    /\ closed = FALSE
    /\ returned = <<>>
    /\ arrived = <<>>
    /\ drawn = 0
    /\ mark = 0
    /\ taken = 0
    /\ last_send = "None"
    /\ sent = <<>>
    /\ eof_turns = 0
    /\ arg = <<>>
    /\ ret = <<"None">>

\* The calls on a session, with the device sending the lines of the protocol.
Next ==
    \/ DevicePublish
    \/ DeviceReply
    \/ DeviceNoise
    \/ SendCommand
    \/ SendRead
    \/ SendEof
    \/ RecvToken
    \/ RecvRead
    \/ RecvEof

Spec ==
    Init /\ [][Next]_vars

\* The calls on a session, with the device sending garbled lines as well.
NextGarbled ==
    \/ DevicePublish
    \/ DeviceReply
    \/ DeviceNoise
    \/ DeviceGarble
    \/ SendCommand
    \/ SendRead
    \/ SendEof
    \/ RecvToken
    \/ RecvRead
    \/ RecvEof

SpecGarbled ==
    Init /\ [][NextGarbled]_vars

\* The calls of get_aliases, with the device sending replies of every form.
NextAliases ==
    \/ DevicePublish
    \/ DeviceReply
    \/ DeviceList
    \/ DeviceNoise
    \/ GetAliases
    \/ AliasesRead
    \/ AliasesEof

SpecAliases ==
    Init /\ [][NextAliases]_vars

\* The calls on a session whose stream ends in the middle of a line.
NextCut ==
    \/ DevicePublish
    \/ DeviceNoise
    \/ DeviceCutReply
    \/ DeviceCutToken
    \/ SendCommand
    \/ SendRead
    \/ SendEof
    \/ RecvToken
    \/ RecvRead
    \/ RecvEof

SpecCut ==
    Init /\ [][NextCut]_vars

\* The calls on a session whose device answers each command written with
\* one reply, in order, and keeps the stream open: a read waits for a line.
NextAnswering ==
    \/ DevicePublish
    \/ DeviceAnswer
    \/ DeviceNoise
    \/ DeviceGarble
    \/ SendCommand
    \/ SendRead
    \/ RecvToken
    \/ RecvRead

SpecAnswering ==
    Init /\ [][NextAnswering]_vars

\* The calls, with the device sending publish tokens and lines that begin
\* as a response and are not of the grammar.
NextMalformed ==
    \/ DevicePublish
    \/ DeviceMalformed
    \/ SendCommand
    \/ SendRead
    \/ RecvToken
    \/ RecvRead

SpecMalformed ==
    Init /\ [][NextMalformed]_vars

(***************************************************************************)
(* The claims.  What a line of the device says is written here by hand,    *)
(* not by the parsers above.                                               *)
(***************************************************************************)
\* The step reads the first unread line.
ReadsLine ==
    read_stream # <<>> /\ read_stream' = Tail(read_stream)

\* The token of TokenLine(n).
TokenOf(n) ==
    [label |-> <<"X">>, value |-> <<"Number", n, 0>>]

\* The OkResponse of ReplyLine(form, k), form "ok" or "value".
OkOf(form, k) ==
    IF form = "ok" THEN <<"Ok">> ELSE <<"WithValue", <<"Number", k, 0>>>>

\* The message of ReplyLine(form, k), form "err" or "err2", without the
\* spaces that precede it.
MessageOf(form, k) ==
    IF form = "err" THEN <<"n", "o", " ">> \o ToDecimal(k)
    ELSE <<"b", "a", "d", " ">> \o ToDecimal(k)

\* The text of a '-ERR' line after "-ERR " and before the newline.
TextAfterErrSpace(line) ==
    SubSeq(line, 6, Len(line) - 1)

\* The line is blank, or its first non-blank character is not '+', '-', '!'.
IsNoResponse(line) ==
    LET n == PrefixLen(line, IsWhitespace)
    IN  n = Len(line) \/ line[n + 1] \notin {"+", "-", "!"}

\* C1: the publish tokens recv_token has returned, taken from the buffer or
\* read from the stream, are in the order in which the device emitted their
\* lines: their serial numbers increase.
C1_TokensInEmissionOrder ==
    \A i, j \in 1..Len(returned) :
        i < j => returned[i].value[2] < returned[j].value[2]

\* recv_token has returned two tokens, one from the buffer and one it read.
C1_Witness ==
    /\ returned = <<TokenOf(1), TokenOf(2)>>
    /\ drawn = 1

\* C2, as amended: a token send_command has buffered is never dropped, and
\* recv_token returns the buffered tokens oldest first without reading the
\* stream: while a buffered token has not been returned, recv_token returns
\* at once, and returns the oldest of them, however send_command ended.
C2_BufferedTokensOldestFirst ==
    [][ (pc = "ready" /\ call' = "recv_token" /\ read_stream' = read_stream
            /\ drawn < Len(arrived))
        => (pc' = "ready" /\ result' = <<"Token", arrived[drawn + 1]>>) ]_vars

\* C2, as stated: after a send_command that buffered k tokens and ended with
\* success, OperationFailed or UnexpectedEnd, the i-th recv_token call after
\* it (i <= k) returns the i-th of those k tokens without reading the stream.
C2_NextCallsReturnTheNewTokens ==
    [][ (pc = "ready" /\ call' = "recv_token" /\ read_stream' = read_stream
            /\ last_send \in {"Ok", "OperationFailed", "UnexpectedEnd"}
            /\ drawn - taken < Len(arrived) - mark)
        => (pc' = "ready"
            /\ result' = <<"Token", arrived[mark + (drawn - taken) + 1]>>) ]_vars

\* Two send_command calls buffered one token each, the second ended with
\* UnexpectedEnd, and two recv_token calls have returned both tokens.
C2_Witness ==
    /\ call = "recv_token" /\ pc = "ready"
    /\ last_send = "UnexpectedEnd"
    /\ mark = 1 /\ taken = 0 /\ drawn = 2
    /\ returned = <<TokenOf(1), TokenOf(2)>>
    /\ result = <<"Token", TokenOf(2)>>

\* C3: a send_command call goes on reading after a blank line, an echo line
\* or a publish-token line, and returns on the first '+' or '-' line: success
\* with that line's OkResponse for '+', OperationFailed for '-'.
C3_ReplyLineEndsCall ==
    [][ (call = "send_command" /\ pc = "loop" /\ ReadsLine)
        => /\ Head(read_stream) \in NoiseLines => pc' = "loop"
           /\ \A n \in 1..MaxTokens :
                  Head(read_stream) = TokenLine(n) => pc' = "loop"
           /\ \A k \in 1..MaxReplies : \A form \in {"ok", "value"} :
                  Head(read_stream) = ReplyLine(form, k)
                      => pc' = "ready" /\ result' = <<"Ok", OkOf(form, k)>>
           /\ \A k \in 1..MaxReplies : \A form \in {"err", "err2"} :
                  Head(read_stream) = ReplyLine(form, k)
                      => pc' = "ready" /\ result'[1] = "OperationFailed" ]_vars

\* C4: against a device that answers each command written with one reply in
\* order, the reply a send_command call returns is the reply to the command
\* that call wrote: it carries the number of the last command written.
C4_ReplyIsForCommandWritten ==
    (call = "send_command" /\ pc = "ready")
        => /\ result[1] = "Ok"
                => result[2] = <<"WithValue", <<"Number", NumWritten, 0>>>>
           /\ result[1] = "OperationFailed"
                => result[2] = MessageOf("err", NumWritten)

\* C5, as amended: on a '-ERR' reply send_command returns OperationFailed
\* whose message is the text after '-ERR' and the spaces that follow it, and
\* the session is usable as after a success: the call has returned, and the
\* pending buffer holds what it held.
C5_ErrReplyIsOperationFailed ==
    [][ (call = "send_command" /\ pc = "loop" /\ ReadsLine)
        => \A k \in 1..MaxReplies : \A form \in {"err", "err2"} :
               Head(read_stream) = ReplyLine(form, k)
                   => /\ pc' = "ready"
                      /\ result' = <<"OperationFailed", MessageOf(form, k)>>
                      /\ pending_token' = pending_token ]_vars

\* C5, as stated: the message is the text after '-ERR ' unchanged.
C5_MessageIsTextAfterErrSpace ==
    [][ (call = "send_command" /\ pc = "loop" /\ ReadsLine)
        => \A k \in 1..MaxReplies : \A form \in {"err", "err2"} :
               Head(read_stream) = ReplyLine(form, k)
                   => /\ pc' = "ready"
                      /\ result' = <<"OperationFailed",
                                     TextAfterErrSpace(Head(read_stream))>>
                      /\ pending_token' = pending_token ]_vars

\* send_command has returned OperationFailed for the reply with two spaces
\* before its message, with a token in the pending buffer.
C5_Witness ==
    /\ call = "send_command" /\ pc = "ready"
    /\ result = <<"OperationFailed", MessageOf("err2", 1)>>
    /\ pending_token = <<TokenOf(1)>>

\* C6: when a read returns zero bytes while send_command awaits its reply,
\* or while recv_token reads for a token, the call returns UnexpectedEnd.
C6_EndOfInputIsUnexpectedEnd ==
    [][ (call \in {"send_command", "recv_token"} /\ pc = "loop"
            /\ read_stream = <<>> /\ read_stream' = <<>>)
        => (pc' = "ready" /\ result' = <<"UnexpectedEnd">>) ]_vars

\* recv_token, called with an empty pending buffer, has returned
\* UnexpectedEnd after a send_command that did so too.
C6_Witness ==
    /\ call = "recv_token" /\ pc = "ready"
    /\ result = <<"UnexpectedEnd">>
    /\ last_send = "UnexpectedEnd"
    /\ pending_token = <<>>

\* C7: when the stream ends in the middle of a reply line, the send_command
\* call that reads the unterminated line returns UnexpectedEnd.
C7_CutLineIsUnexpectedEnd ==
    [][ (call = "send_command" /\ pc = "loop" /\ ReadsLine
            /\ ~IsTerminated(Head(read_stream)))
        => (pc' = "ready" /\ result' = <<"UnexpectedEnd">>) ]_vars

\* C8: recv_token, reading with an empty pending buffer, goes on after a
\* blank or echo line, returns the token of a '!' line, returns
\* UnexpectedResponse with the response of a '+' or '-' line, and leaves the
\* pending buffer empty.
C8_RecvTokenReadsForToken ==
    [][ (call = "recv_token" /\ pc = "loop" /\ ReadsLine)
        => /\ pending_token' = <<>>
           /\ Head(read_stream) \in NoiseLines => pc' = "loop"
           /\ \A n \in 1..MaxTokens :
                  Head(read_stream) = TokenLine(n)
                      => pc' = "ready" /\ result' = <<"Token", TokenOf(n)>>
           /\ \A k \in 1..MaxReplies : \A form \in {"ok", "value"} :
                  Head(read_stream) = ReplyLine(form, k)
                      => /\ pc' = "ready"
                         /\ result' = <<"UnexpectedResponse", <<"Ok", OkOf(form, k)>>>>
           /\ \A k \in 1..MaxReplies : \A form \in {"err", "err2"} :
                  Head(read_stream) = ReplyLine(form, k)
                      => /\ pc' = "ready"
                         /\ result'[1] = "UnexpectedResponse"
                         /\ result'[2][1] = "Err" ]_vars

\* C9: a line that is blank, or whose first non-blank character is not '+',
\* '-' or '!', is discarded by the call that reads it: the call goes on
\* reading, returns nothing, and the pending buffer holds what it held.
C9_NoResponseLineIsDiscarded ==
    [][ (call \in {"send_command", "recv_token"} /\ pc = "loop" /\ ReadsLine
            /\ IsNoResponse(Head(read_stream)))
        => (pc' = "loop" /\ result' = result
            /\ pending_token' = pending_token) ]_vars

\* C10: opening a session reads on after every line that does not begin with
\* 'Welcome', whatever it holds, returns on the line that does, reads nothing
\* once it has returned, writes nothing and leaves the pending buffer empty.
C10_OpenReadsToWelcome ==
    [][ /\ (call = "new_from_stream" /\ pc = "loop" /\ ReadsLine)
            => /\ pc' = IF Head(read_stream) = WelcomeLine THEN "ready" ELSE "loop"
               /\ write_stream' = <<>>
               /\ pending_token' = <<>>
        /\ (call = "new_from_stream" /\ pc = "ready")
            => (~ReadsLine /\ write_stream' = <<>> /\ pending_token' = <<>>) ]_vars

\* The session is open: a publish token was read and discarded before the
\* welcome line, and a reply the device sent is unread.
C10_Witness ==
    /\ call = "new_from_stream" /\ pc = "ready"
    /\ result = <<"Session">>
    /\ serial = 1 /\ greeted
    /\ read_stream = <<ReplyLine("ok", 1)>>

\* The fields, each with one space before it.
RECURSIVE SpacedBefore(_)
SpacedBefore(fields) ==
    IF fields = <<>> THEN <<>>
    ELSE <<" ">> \o Head(fields) \o SpacedBefore(Tail(fields))

\* The line of a command: the instance tag, then the verb, the attribute,
\* each index in decimal and each value token, one space before each, and
\* the newline.
WireLine(cmd) ==
    cmd.instance_tag
        \o SpacedBefore(<<cmd.command, cmd.attribute>>)
        \o SpacedBefore([i \in 1..Len(cmd.indexes) |-> ToDecimal(cmd.indexes[i])])
        \o SpacedBefore(cmd.values)
        \o <<"\n">>

\* The lines of the commands, one after the other.
RECURSIVE WireLines(_)
WireLines(cmds) ==
    IF cmds = <<>> THEN <<>> ELSE WireLine(Head(cmds)) \o WireLines(Tail(cmds))

\* The step is a call of send_command.
CallsSendCommand ==
    pc = "ready" /\ call' = "send_command" /\ pc' = "loop"

\* What the step writes.
Written ==
    Drop(write_stream', Len(write_stream))

\* C11: the line send_command writes for a command is its instance tag,
\* verb and attribute, then its indexes and its value tokens in order, with
\* one space between consecutive fields and none at the end, and it holds
\* one newline, its last character.
C11_LineIsFieldsSingleSpaced ==
    [][ CallsSendCommand
        => /\ Len(sent') = Len(sent) + 1
           /\ write_stream' = write_stream \o WireLine(sent'[Len(sent')])
           /\ Written[Len(Written)] = "\n"
           /\ Cardinality({i \in 1..Len(Written) : Written[i] = "\n"}) = 1
           /\ Written[Len(Written) - 1] # " " ]_vars

\* send_command has written a command without indexes and values and a
\* command with two indexes and two value tokens.
C11_Witness ==
    /\ call = "send_command"
    /\ sent = <<session_aliases,
                new_subscribe_with_rate(<<"L">>, <<"a">>, <<1, 2>>, <<"S", "0">>, 500)>>
    /\ write_stream =
           <<"S", "E", "S", "S", "I", "O", "N", " ", "g", "e", "t", " ",
             "a", "l", "i", "a", "s", "e", "s", "\n",
             "L", " ", "s", "u", "b", "s", "c", "r", "i", "b", "e", " ", "a", " ",
             "1", " ", "2", " ", "S", "0", " ", "5", "0", "0", "\n">>

\* C12: the write stream holds the lines of the commands passed to
\* send_command, in call order and nothing else; the step that calls
\* send_command writes its line and reads nothing, a step that reads a line
\* writes nothing, and no step of the handshake or of recv_token writes.
C12_WriteStreamIsLinesOfCommands ==
    [][ /\ write_stream' = WireLines(sent')
        /\ CallsSendCommand
               => (read_stream' = read_stream /\ Len(write_stream') > Len(write_stream))
        /\ ReadsLine => write_stream' = write_stream
        /\ call' \in {"new_from_stream", "recv_token"}
               => write_stream' = write_stream ]_vars

\* After the handshake two different commands were sent, each read its
\* reply, and recv_token has then read a line.
C12_Witness ==
    /\ sent = <<new_get(<<"L">>, <<"a">>, <<2>>), session_aliases>>
    /\ call = "recv_token" /\ pc = "ready"
    /\ result[1] = "UnexpectedEnd"
    /\ answers = 2

\* The strings among the entries of a list reply.
StringsOf(entries) ==
    { e[2] : e \in { entries[i] : i \in { j \in 1..Len(entries) : entries[j][1] = "s" } } }

\* C13: get_aliases writes the line 'SESSION get aliases'; on a list reply
\* it returns the set of the strings of the list; on a bare '+OK' and on a
\* '+OK' with a value it returns UnexpectedResponse with that response.
C13_GetAliasesReturnsStringsOfList ==
    [][ /\ (pc = "ready" /\ call' = "get_aliases" /\ pc' = "loop")
            => Written = <<"S", "E", "S", "S", "I", "O", "N", " ", "g", "e", "t", " ",
                           "a", "l", "i", "a", "s", "e", "s", "\n">>
        /\ (call = "get_aliases" /\ pc = "loop" /\ ReadsLine)
            => /\ \A entries \in ListReplies :
                      Head(read_stream) = ListLine(entries)
                          => /\ pc' = "ready"
                             /\ result' = <<"Aliases", StringsOf(entries)>>
               /\ \A k \in 1..MaxReplies : \A form \in {"ok", "value"} :
                      Head(read_stream) = ReplyLine(form, k)
                          => /\ pc' = "ready"
                             /\ result' = <<"UnexpectedResponse",
                                            <<"Ok", OkOf(form, k)>>>> ]_vars

\* get_aliases has returned the two strings of a list of five entries,
\* after a get_aliases that returned UnexpectedResponse.
C13_Witness ==
    /\ call = "get_aliases" /\ pc = "ready"
    /\ Len(sent) = 2
    /\ result = <<"Aliases", {<<"B">>, <<>>}>>

\* parse_ttp has returned.
Parsed ==
    ret # <<"None">>

\* parse_ttp has returned a '+OK' response with a value.
ReturnedWithValue ==
    /\ ret[1] = "Response"
    /\ ret[2][1] = "Ok"
    /\ ret[2][2][1] = "WithValue"

\* The text after '+OK "value":'.
ValueText ==
    Drop(arg, Len(OkValuePrefix))

\* The number the text denotes, as a fraction: the digits before the point
\* followed by those after it, negated after a '-', over ten to the number
\* of digits after the point.
Numerator(t) ==
    (IF StartsWith(t, <<"-">>) THEN -1 ELSE 1)
        * (DecVal(WholeDigits(t)) * Pow10(Len(FractionDigits(t)))
           + DecVal(FractionDigits(t)))

Denominator(t) ==
    Pow10(Len(FractionDigits(t)))

\* The value v is the number the text t denotes.
IsNumberOf(v, t) ==
    /\ v[1] = "Number"
    /\ v[2] * Denominator(t) = Numerator(t) * Pow10(v[3])

\* C14: the Number decoded from a text of the number grammar is the decimal
\* value the text denotes, negative after a '-' before a nonzero magnitude.
C14_NumberIsDenotedValue ==
    (Parsed /\ StartsWith(arg, OkValuePrefix) /\ IsNumberText(ValueText))
        => (ReturnedWithValue /\ IsNumberOf(ret[2][2][2], ValueText))

TrueText ==
    <<"t", "r", "u", "e">>

FalseText ==
    <<"f", "a", "l", "s", "e">>

\* A text in quotes that holds no quote.
IsQuoted(t) ==
    /\ Len(t) >= 2
    /\ t[1] = "\"" /\ t[Len(t)] = "\""
    /\ \A i \in 2..(Len(t) - 1) : t[i] # "\""

\* A text of alphanumerics and underscores.
IsBare(t) ==
    t # <<>> /\ \A i \in 1..Len(t) : IsAlphanumeric(t[i]) \/ t[i] = "_"

\* A value token: a string in quotes, a number, or a bare token.
IsValueToken(t) ==
    IsQuoted(t) \/ IsNumberText(t) \/ IsBare(t)

\* The value v is of the class of the token t, taken as a whole.
IsClassOfToken(v, t) ==
    IF t[1] = "\"" THEN v[1] = "String" /\ v[2] = SubSeq(t, 2, Len(t) - 1)
    ELSE IF t = TrueText THEN v[1] = "Boolean" /\ v[2] = TRUE
    ELSE IF t = FalseText THEN v[1] = "Boolean" /\ v[2] = FALSE
    ELSE IF IsNumberText(t) THEN v[1] = "Number"
    ELSE v[1] = "Constant" /\ v[2] = t

\* C15: a value token is decoded by what the whole token is: a String when
\* it starts with a quote, else a Boolean when it is 'true' or 'false', a
\* Number when it matches the number grammar, and else a Constant whose
\* text is the whole token.
C15_TokenClassifiedAsAWhole ==
    (Parsed /\ StartsWith(arg, OkValuePrefix) /\ IsValueToken(ValueText))
        => (ReturnedWithValue /\ IsClassOfToken(ret[2][2][2], ValueText))

\* The text up to its first newline, or all of it when it has none.
UpToNewline(t) ==
    IF IndexOf(t, "\n") = 0 THEN t ELSE Take(t, IndexOf(t, "\n") - 1)

\* The text after '-ERR'.
AfterErr ==
    Drop(arg, Len(ErrTag))

\* The text is '-ERR' followed by nothing, a newline, a space or a tab.
IsErrText ==
    /\ StartsWith(arg, ErrTag)
    /\ AfterErr # <<>> => AfterErr[1] \in {" ", "\t", "\n", "\r"}

\* C16, as amended: the message of a '-ERR' response is the text after
\* '-ERR' and the spaces and tabs that follow it, up to the first newline
\* or the end of the input; it is empty when nothing follows '-ERR'.
C16_MessageFollowsErrAndBlanks ==
    (Parsed /\ IsErrText)
        => ret = <<"Response", <<"Err",
                     IF AfterErr # <<>> /\ IsSpace(AfterErr[1])
                     THEN UpToNewline(Drop(AfterErr, PrefixLen(AfterErr, IsSpace)))
                     ELSE <<>> >>>>

\* C16, as stated: the message is the text after '-ERR ' up to the first
\* newline or the end of the input, and empty when nothing follows '-ERR'.
C16_MessageFollowsErrSpace ==
    (Parsed /\ IsErrText /\ (AfterErr = <<>> \/ AfterErr[1] \in {" ", "\n"}))
        => ret = <<"Response", <<"Err",
                     IF StartsWith(AfterErr, <<" ">>)
                     THEN UpToNewline(Tail(AfterErr))
                     ELSE <<>> >>>>

\* parse_ttp has returned the message 'no 1' of a text with two spaces
\* before the message and text after its newline.
C16_Witness ==
    /\ arg = <<"-", "E", "R", "R", " ", " ", "n", "o", " ", "1", "\n", "A", "A">>
    /\ ret = <<"Response", <<"Err", <<"n", "o", " ", "1">>>>>>

\* C17: '+OK' alone is the bare Ok response; '+OK "value":v' is WithValue of
\* the value v denotes, for strings, arrays and maps, empty, filled and
\* nested; '+OK "list":[...]' is WithList of the values of the elements in
\* wire order.
C17_OkResponseCarriesDenotedValue ==
    Parsed
        => /\ arg = BareOk => ret = <<"Response", <<"Ok", <<"Ok">>>>>>
           /\ \A i \in DOMAIN StructuredValues :
                  arg = OkValue(StructuredValues[i].text)
                      => ret = <<"Response",
                                 <<"Ok", <<"WithValue", StructuredValues[i].value>>>>>>
           /\ \A i \in DOMAIN Lists :
                  arg = OkList(Lists[i].text)
                      => ret = <<"Response", <<"Ok", <<"WithList", Lists[i].values>>>>>>

\* C18: a line '! "publishToken":"<label>" "value":<value>' is the
\* PublishToken whose label is the text between the quotes and whose value
\* is the value the text denotes, a scalar or an array of numbers.
C18_PublishTokenCarriesLabelAndValue ==
    Parsed
        => \A l \in PublishLabels : \A i \in DOMAIN PublishValues :
               arg = PublishText(l, PublishValues[i].text)
                   => ret = <<"Response",
                              <<"PublishToken",
                                [label |-> l, value |-> PublishValues[i].value]>>>>

\* The Value an encodable value stands for.
ValueOf(v) ==
    CASE v[1] = "f64" -> <<"Number", IF v[2] THEN 0 - v[3] ELSE v[3], v[4]>>
      [] v[1] = "i32" -> <<"Number", v[2], 0>>
      [] v[1] = "bool" -> <<"Boolean", v[2]>>
      [] v[1] = "String" -> v

\* C19: decoding the token produced by encoding a value gives back the
\* value: the whole token is read and the result is the value encoded.
C19_DecodeOfEncodeIsValue ==
    ret[1] = "Decoded"
        => /\ ret[2].st = "Ok"
           /\ ret[2].rest = <<>>
           /\ ret[2].out = ValueOf(arg)

\* The texts between the colons of a text.
RECURSIVE ColonFields(_)
ColonFields(text) ==
    IF IndexOf(text, ":") = 0 THEN <<text>>
    ELSE <<Take(text, IndexOf(text, ":") - 1)>>
             \o ColonFields(Drop(text, IndexOf(text, ":")))

\* The text is the number written in decimal digits.
IsDecimalOf(text, n) ==
    /\ text # <<>>
    /\ \A i \in DOMAIN text : IsAsciiDigit(text[i])
    /\ DecVal(text) = n

\* The token that has been encoded, without its first and last character.
Unquoted ==
    SubSeq(ret[2], 2, Len(ret[2]) - 1)

DateEncoded ==
    ret[1] = "Token" /\ arg[1] = "NaiveDateTime"

\* The token is "HH:MM:SS:M:DD:YYYY" for the date-time encoded.
IsDateToken ==
    /\ Len(ret[2]) >= 2
    /\ Head(ret[2]) = "\"" /\ ret[2][Len(ret[2])] = "\""
    /\ \E f \in {ColonFields(Unquoted)} :
           /\ Len(f) = 6
           /\ Len(f[1]) = 2 /\ IsDecimalOf(f[1], arg[2].hour)
           /\ Len(f[2]) = 2 /\ IsDecimalOf(f[2], arg[2].minute)
           /\ Len(f[3]) = 2 /\ IsDecimalOf(f[3], arg[2].second)
           /\ IsDecimalOf(f[4], arg[2].month) /\ f[4][1] # "0"
           /\ Len(f[5]) = 2 /\ IsDecimalOf(f[5], arg[2].day)
           /\ Len(f[6]) = 4 /\ IsDecimalOf(f[6], arg[2].year)

\* C20: the token encoded for a date-time of a year from 0 to 9999 is the
\* quoted text HH:MM:SS:M:DD:YYYY: hour, minute, second and day in two
\* digits, the month without zero padding, the year in four digits.
C20_DateOfFourDigitYearIsPadded ==
    DateEncoded /\ arg[2].year \in 0..9999 => IsDateToken

\* C20 as stated: the same for every date-time.
C20_EveryDateIsPadded ==
    DateEncoded => IsDateToken

\* 2025-06-01T12:56:43 has been encoded.
C20_Witness ==
    /\ DateEncoded
    /\ arg[2] = [hour |-> 12, minute |-> 56, second |-> 43,
                 month |-> 6, day |-> 1, year |-> 2025]
    /\ ret[2] = <<"\"", "1", "2", ":", "5", "6", ":", "4", "3", ":", "6", ":",
                  "0", "1", ":", "2", "0", "2", "5", "\"">>

\* The two keys of the token of a structured value.
KeysOf(v) ==
    CASE v[1] = "Delay" -> { <<"u", "n", "i", "t", "s">>, <<"d", "e", "l", "a", "y">> }
      [] v[1] = "TypeSlope" -> { <<"t", "y", "p", "e">>, <<"s", "l", "o", "p", "e">> }
      [] v[1] = "FreqGain" -> { <<"f", "r", "e", "q", "u", "e", "n", "c", "y">>, <<"g", "a", "i", "n">> }

\* The texts between the spaces of a text.
RECURSIVE SpaceFields(_)
SpaceFields(text) ==
    IF IndexOf(text, " ") = 0 THEN <<text>>
    ELSE <<Take(text, IndexOf(text, " ") - 1)>>
             \o SpaceFields(Drop(text, IndexOf(text, " ")))

\* The text is '"key":value' for one of the keys, the value not empty.
IsEntryOf(text, keys) ==
    \E k \in keys :
        /\ StartsWith(text, <<"\"">> \o k \o <<"\"", ":">>)
        /\ Len(text) > Len(k) + 3

\* The token is '{"key":value "key":value}' with the two keys, no comma.
IsTwoEntryToken(token, keys) ==
    /\ Len(token) >= 2
    /\ Head(token) = "{" /\ token[Len(token)] = "}"
    /\ IndexOf(token, ",") = 0
    /\ \E f \in {SpaceFields(SubSeq(token, 2, Len(token) - 1))} :
           /\ Len(f) = 2
           /\ IsEntryOf(f[1], keys) /\ IsEntryOf(f[2], keys)
           /\ ~StartsWith(f[1], Take(f[2], IndexOf(f[2], ":")))

StructureDecoded ==
    ret[1] = "Decoded" /\ arg \in Structures

\* What the value parser made of the token is a Map with the keys.
IsMapWithKeys(r, keys) ==
    /\ r.st = "Ok"
    /\ r.rest = <<>>
    /\ r.out[1] = "Map"
    /\ DOMAIN r.out[2] = keys

\* C21: the token of a Delay, a TypeSlope or a FreqGain is two
\* space-separated '"key":value' entries in braces with no comma, and the
\* value parser decodes it as a Map with exactly those two keys.
C21_StructureIsMapOfTwoEntries ==
    /\ ret[1] = "Token" /\ arg \in Structures
           => IsTwoEntryToken(ret[2], KeysOf(arg))
    /\ StructureDecoded => IsMapWithKeys(ret[2], KeysOf(arg))

\* The eight slopes a filter supports.
EightSlopes ==
    {6, 12, 18, 24, 30, 36, 42, 48}

\* C22: FilterSlope::new(s) succeeds exactly when s is one of the eight
\* slopes and otherwise returns the invalid-slope error; every FilterSlope,
\* built by new or predefined, holds one of the eight slopes and encodes as
\* that number in decimal.
C22_SlopeIsOneOfEight ==
    /\ arg[1] = "new" /\ ret[1] \in {"Ok", "Err"}
           => /\ ret[1] = "Ok" <=> arg[2] \in EightSlopes
              /\ ret[1] = "Err" => ret[2] = "InvalidSlopeError"
    /\ ret[1] = "Ok" => ret[2] = <<"FilterSlope", arg[2]>> /\ arg[2] \in EightSlopes
    /\ ret[1] = "Token"
           => /\ arg[2] \in EightSlopes
              /\ IsDecimalOf(ret[2], arg[2]) /\ ret[2][1] # "0"

\* FilterSlope::new(12) has succeeded and the slope has been encoded.
C22_Witness ==
    arg = <<"new", 12>> /\ ret = <<"Token", <<"1", "2">>>>

\* The line of a set command of attribute 'a' of 'L' with the value token.
SetLine(indexes, token) ==
    <<"L", " ", "s", "e", "t", " ", "a">> \o (IF indexes = <<>> THEN <<>> ELSE <<" ", "3">>)
        \o <<" ">> \o token

\* The value token expected for a value: a string in double quotes, a
\* boolean as 'true' or 'false'.
ValueToken(v) ==
    IF v[1] = "String" THEN <<"\"">> \o v[2] \o <<"\"">>
    ELSE IF v[2] THEN <<"t", "r", "u", "e">> ELSE <<"f", "a", "l", "s", "e">>

\* The text after the subscription label 'S0' of a subscribe line.
AfterLabel(line) ==
    Drop(line, Len(<<"L", " ", "s", "u", "b", "s", "c", "r", "i", "b", "e", " ", "a", " ", "S", "0", " ">>))

\* C23: in the encoded line of a set command a string value is the string
\* in double quotes and a boolean is 'true' or 'false'; in a subscribe line
\* the rate is its whole number of milliseconds, after the label.
C23_ValuesAreEncodedTokens ==
    ret[1] = "Line"
        => /\ arg[1] = "set" => ret[2] = SetLine(arg[2], ValueToken(arg[3]))
           /\ arg[1] = "subscribe"
                  => /\ StartsWith(ret[2], <<"L", " ", "s", "u", "b", "s", "c", "r", "i", "b", "e", " ", "a", " ", "S", "0", " ">>)
                     /\ \E n \in 0..2000 :
                            /\ n * 1000 <= arg[2] /\ arg[2] < (n + 1) * 1000
                            /\ IsDecimalOf(AfterLabel(ret[2]), n)

\* The catalog values of the attribute, as a set.
ValueSet ==
    { arg[2][i] : i \in DOMAIN arg[2] }

\* The names given to catalog values, written out.
NameOf(value) ==
    CASE value = <<"A">> -> <<"A">>
      [] value = <<"B">> -> <<"B">>
      [] value = <<"C">> -> <<"C">>
      [] value = <<"t", "r", "u", "e">> -> <<"T", "r", "u", "e">>
      [] value = <<"f", "a", "l", "s", "e">> -> <<"F", "a", "l", "s", "e">>

\* The enumeration has one variant for each catalog value, named after it
\* and encoded as it.
IsEnumOf(variants, values) ==
    /\ Len(variants) = Cardinality(values)
    /\ \A v \in values :
           \E i \in DOMAIN variants :
               variants[i] = [name |-> NameOf(v), text |-> v]

\* C24: the type generated for discrete values is an enumeration with
\* exactly one variant per catalog value, each variant encoded as its
\* catalog value; for the values false and true it is the native boolean.
C24_EnumHasOneVariantPerValue ==
    /\ ret[1] \in {"bool", "enum"}
           => IF ValueSet = { <<"f", "a", "l", "s", "e">>, <<"t", "r", "u", "e">> }
              THEN ret = <<"bool">>
              ELSE ret[1] = "enum" /\ IsEnumOf(ret[2], ValueSet)
    /\ ret[1] = "VariantToken" => ret[3] = arg[2][ret[2]]
    /\ ret[1] = "BoolToken"
           => ret[3] = (IF ret[2] THEN <<"t", "r", "u", "e">> ELSE <<"f", "a", "l", "s", "e">>)

\* A step of a send_command or recv_token call that is reading, on a line
\* that is not of the response grammar.
OnMalformedLine ==
    /\ call \in {"send_command", "recv_token"} /\ pc = "loop"
    /\ read_stream # <<>>
    /\ Head(read_stream) \in MalformedLines
    /\ Len(read_stream') <= Len(read_stream)

\* C25: the call that reads a line beginning with '+', '-' or '!' that is
\* not of the response grammar returns ParsingFailed; the line is consumed
\* and the pending buffer is as it was before the line was read.
C25_MalformedLineIsParsingFailed ==
    [][ OnMalformedLine
        => /\ read_stream' = Tail(read_stream)
           /\ pc' = "ready"
           /\ result' = <<"ParsingFailed">>
           /\ pending_token' = pending_token ]_vars

\* C26: opening a session does not read forever on a stream that has ended:
\* the turn of the handshake that finds the end of input, no line beginning
\* with 'Welcome' having been read, returns with an error.
C26_OpenReturnsAtEndOfInput ==
    [][ (call = "new_from_stream" /\ pc = "loop" /\ eof_turns' > eof_turns)
        => (pc' = "ready" /\ result'[1] \notin {"None", "Session"}) ]_vars

\* The line begins with '+OK' and goes on with a character other than the
\* newline.
IsOkWithMore(line) ==
    /\ StartsWith(line, <<"+", "O", "K">>)
    /\ Len(line) > 3
    /\ line[4] # "\n"

\* The lines '+OK "value":<k>' of the grammar that the device sends.
WellFormedOkLines ==
    { ReplyLine("value", k) : k \in 1..MaxReplies }

\* C27: a line that starts with '+OK' and goes on with text that is not a
\* well-formed payload, or with a value followed by further characters, is
\* not returned by send_command as a successful reply.
C27_OkWithTrailingTextIsNotSuccess ==
    [][ (/\ call = "send_command" /\ pc = "loop"
         /\ ReadsLine
         /\ IsOkWithMore(Head(read_stream))
         /\ Head(read_stream) \notin WellFormedOkLines)
        => ~(pc' = "ready" /\ result'[1] = "Ok") ]_vars

\* The step reads the line '+OK' that a blank precedes.
ReadsIndentedOk ==
    /\ pc = "loop"
    /\ ReadsLine
    /\ Head(read_stream) = IndentedOkLine

\* C28: classification and parsing of a line agree: a call that reads the
\* line ' +OK' ends as it does on the line '+OK', send_command with the
\* bare success reply and recv_token with that reply as an unexpected
\* response.
C28_IndentedReplyIsThatReply ==
    [][ /\ (call = "send_command" /\ ReadsIndentedOk)
            => (pc' = "ready" /\ result' = <<"Ok", OkOf("ok", 0)>>)
        /\ (call = "recv_token" /\ ReadsIndentedOk)
            => (pc' = "ready"
                /\ result' = <<"UnexpectedResponse", <<"Ok", OkOf("ok", 0)>>>>) ]_vars

\* C29: reading a line does not abort the program: a call that reads a line,
\* whatever the line holds, goes on reading or has returned after the step.
C29_ReadingNeverAborts ==
    [][ (call \in {"send_command", "recv_token"} /\ pc = "loop" /\ ReadsLine)
        => pc' \in {"loop", "ready"} ]_vars

\* float_str has returned or aborted on the number text.
NumberDecoded ==
    ret[1] = "FloatStr"

\* C30: number decoding returns a number or a parse error for a text of the
\* number grammar of any length: it does not abort, and the number is not
\* one computed from a wrapped-around power of ten.
C30_NumberDecodingReturnsNumber ==
    NumberDecoded
        => /\ ret[3].st \in {"Ok", "Error"}
           /\ ret[3].st = "Ok" => ret[3].out[1] = "Number"

====
